---- MODULE Spec2Model ----
(***************************************************************************)
(* State-machine model of the async-chat worker engine: the dispatcher     *)
(* that creates Task rows and stream entries, the workers that run         *)
(* run_chat_task on each delivered entry (main loop and startup recovery), *)
(* the node reservation (CAS claim / release) and the task status machine. *)
(*                                                                         *)
(* ai_tasks and the node table are the shared DB; every commit is one      *)
(* step.  The stream is a Redis stream with one consumer group: an entry   *)
(* is delivered to one consumer by a read of '>' and stays in that         *)
(* consumer's pending list until xack.                                     *)
(***************************************************************************)
EXTENDS Integers, Sequences, FiniteSets, TLC

(* ------------------------------------------------------------------ *)
(* Bounds of the model                                                  *)
(* ------------------------------------------------------------------ *)
MaxFaults == 2       \* process kills plus raising xack calls in one behaviour

(* ------------------------------------------------------------------ *)
(* Program constants                                                    *)
(* ------------------------------------------------------------------ *)
max_retries == 3            \* acquire_node_with_retry(max_retries=3)
RecoverCount == 50          \* xreadgroup(... '0', count=50)
ExpireMs == 60000           \* current_time - msg_timestamp > 60000
NumThreads == 5             \* test_concurrency: range(5)

Workers == {"w1", "w2"}
TaskIds == {"t1", "t2"}
NodeUrls == {<<"n1">>, <<"n2">>}

Null == <<>>                \* Python None (every real string is non-empty)

PENDING == "PENDING"
PROCESSING == "PROCESSING"
SUCCESS == "SUCCESS"
FAILED == "FAILED"
NOROW == "NOROW"            \* no row with this task_id in ai_tasks
Terminal == {SUCCESS, FAILED}

(* error_msg texts, as token sequences *)
MSG_NO_NODE == <<"no node available or contention timeout">>
MSG_CONNECT_TIMEOUT == <<"cannot connect to AI service (ConnectTimeout)">>
MSG_TIMEOUT == <<"AI generation timeout (Timeout)">>
MSG_NETWORK == <<"network request error: ">>
MSG_UPLOAD == <<"file upload failed, cannot process request">>
MSG_API_ERROR == <<"API Error ">>
MSG_INTERNAL == <<"internal processing error">>
MSG_REFUSED == <<"generation failed: ">>
MSG_MQ == <<"MQ Error: ">>

(* GEMINI_REFUSAL_KEYWORDS, and the texts a backend may answer *)
RefusalKeywords == {"cannot create images", "region not available"}
TextOk == <<"hello">>
TextRefusal == <<"sorry,", "cannot create images">>

(* ------------------------------------------------------------------ *)
(* Pure helpers                                                         *)
(* ------------------------------------------------------------------ *)
Range(s) == {s[i] : i \in 1..Len(s)}

\* full_api_url.split("/v1/")[0]  or  full_api_url.replace("/upload", "")
IndexOf(s, x) == CHOOSE i \in 1..Len(s) : s[i] = x /\ \A j \in 1..(i-1) : s[j] # x

RECURSIVE Without(_, _)
Without(s, x) ==
    IF s = <<>> THEN <<>>
    ELSE IF Head(s) = x THEN Without(Tail(s), x)
    ELSE <<Head(s)>> \o Without(Tail(s), x)

BaseUrl(full_api_url) ==
    IF "/v1/" \in Range(full_api_url)
    THEN SubSeq(full_api_url, 1, IndexOf(full_api_url, "/v1/") - 1)
    ELSE Without(full_api_url, "/upload")

\* f"{target_url}/v1/chat/completions"
FinalUrl(node_url) == node_url \o <<"/v1/", "chat/completions">>

\* any(keyword in ai_text for keyword in refusal_keywords)
IsRefusal(ai_text, refusal_keywords) ==
    \E k \in refusal_keywords : k \in Range(ai_text)


RECURSIVE SortedSeq(_)
SortedSeq(S) ==
    IF S = {} THEN <<>>
    ELSE LET m == CHOOSE x \in S : \A y \in S : x <= y
         IN <<m>> \o SortedSeq(S \ {m})

FirstN(s, n) == SubSeq(s, 1, IF Len(s) < n THEN Len(s) ELSE n)

\* the texts of the k-th chat-completions answer for a task
CallTag(k) == IF k = 1 THEN "#1" ELSE IF k = 2 THEN "#2" ELSE "#n"

\* file_paths of the task payload: t2 is a multimodal task
FilePaths(t) == IF t = "t2" THEN <<"upload/a.png">> ELSE <<>>

(* ------------------------------------------------------------------ *)
(* DB statements (each is one committed statement)                      *)
(* ------------------------------------------------------------------ *)
\* rows matched by  UPDATE ai_tasks SET status=PROCESSING
\*                  WHERE task_id=? AND status=PENDING
ClaimRowcountNoWhere(tk, task_id) == IF tk[task_id].status # NOROW THEN 1 ELSE 0

ClaimRowcount(tk, task_id) == IF tk[task_id].status = PENDING THEN 1 ELSE 0

claim_task_result(tk, task_id) == ClaimRowcount(tk, task_id) = 1

claim_task(tk, task_id) ==
    IF ClaimRowcount(tk, task_id) = 1
    THEN [tk EXCEPT ![task_id].status = PROCESSING]
    ELSE tk

mark_task_failed(tk, task_id, error_msg) ==
    IF tk[task_id].status # NOROW
    THEN [tk EXCEPT ![task_id].status = FAILED, ![task_id].error_msg = error_msg]
    ELSE tk

finish_task_success(tk, task_id, response_text) ==
    IF tk[task_id].status # NOROW
    THEN [tk EXCEPT ![task_id].status = SUCCESS,
                    ![task_id].response_text = response_text]
    ELSE tk

\* keyword in None raises TypeError, which process_ai_result catches: no write
process_ai_result(tk, task_id, ai_text, refusal_keywords) ==
    IF refusal_keywords # {} /\ ai_text = Null THEN tk
    ELSE IF refusal_keywords # {} /\ IsRefusal(ai_text, refusal_keywords)
    THEN mark_task_failed(tk, task_id, MSG_REFUSED \o ai_text)
    ELSE finish_task_success(tk, task_id, ai_text)

\* the value process_ai_result returns
process_ai_result_returns(tk, task_id, ai_text, refusal_keywords) ==
    IF refusal_keywords # {} /\ ai_text = Null THEN FALSE
    ELSE IF refusal_keywords # {} /\ IsRefusal(ai_text, refusal_keywords) THEN FALSE
    ELSE tk[task_id].status # NOROW

\* recover_pending_tasks: UPDATE ... SET status=PENDING WHERE status=PROCESSING
zombie_reset(tk, task_id) ==
    IF tk[task_id].status = PROCESSING
    THEN [tk EXCEPT ![task_id].status = PENDING]
    ELSE tk

\* rows matched by  UPDATE nodes SET dispatched_tasks=1
\*                  WHERE node_url=? AND dispatched_tasks=0
NodeClaimRowcountNoWhere(nd, full_api_url) ==
    IF BaseUrl(full_api_url) \in DOMAIN nd THEN 1 ELSE 0

NodeClaimRowcount(nd, full_api_url) ==
    IF BaseUrl(full_api_url) \in DOMAIN nd
       /\ nd[BaseUrl(full_api_url)].dispatched_tasks = 0
    THEN 1 ELSE 0

atomic_claim_node_result(nd, full_api_url) == NodeClaimRowcount(nd, full_api_url) = 1

\* the CAS followed by a second reservation of the same node
atomic_claim_node_then_reserve(nd, full_api_url) ==
    IF NodeClaimRowcount(nd, full_api_url) >= 1
    THEN [nd EXCEPT ![BaseUrl(full_api_url)].dispatched_tasks = 1 + 1]
    ELSE nd

atomic_claim_node(nd, full_api_url) ==
    IF NodeClaimRowcount(nd, full_api_url) >= 1
    THEN [nd EXCEPT ![BaseUrl(full_api_url)].dispatched_tasks = 1]
    ELSE nd

update_node_load(nd, full_api_url, delta) ==
    IF BaseUrl(full_api_url) \in DOMAIN nd
    THEN [nd EXCEPT ![BaseUrl(full_api_url)].dispatched_tasks = @ + delta]
    ELSE nd

release_node_safe(nd, node_url) ==
    IF node_url # Null THEN update_node_load(nd, node_url, -1) ELSE nd

\* get_database_target_url: the nodes its query returns
ActiveNodes(nd) == {n \in DOMAIN nd : nd[n].alive /\ nd[n].dispatched_tasks = 0}


(* ------------------------------------------------------------------ *)
(* State                                                                *)
(* ------------------------------------------------------------------ *)
VARIABLES
    tasks,      \* ai_tasks: task_id -> [status, response_text, error_msg]
    nodes,      \* node table: node_url -> [alive, dispatched_tasks]
    disp,       \* dispatcher position per task: "idle", "created", "done"
    stream,     \* the stream: sequence of [task]; an entry's id is its index
    delivered,  \* the group's last-delivered id
    pel,        \* pending-entries list of each consumer
    age,        \* age of each stream entry: time.time()*1000 - its id's timestamp
    wk,         \* each worker process: position and local variables
    calls,      \* chat-completions requests made so far, per task
    crashes,    \* process kills so far
    ackFails,   \* xack calls that raised so far
    claimer,    \* test_idempotency: the threads of test_concurrency
    dlq,        \* the stream sys_dead_letters: sequence of dead_msg records
    meta,       \* conversations: conversation_id -> session_metadata
    rt,         \* each worker's call of acquire_node_with_retry with a conversation
    gw,         \* each POST /v1/chat/completions request: position in create_chat_task
    batch_rows, \* committed rows of chat_batches
    batch_tasks,\* committed Task rows by batch_id: sequence of statuses
    polled,     \* the last answer of GET /v1/batches/{batch_id}
    dp,         \* one call of dispatch_tasks: its arguments and its position
    drows,      \* the Task rows that call committed, in order
    streams,    \* stream key -> the payloads appended by that call
    node_rows,  \* the node table as the gateway reads it: status and heartbeat
    served,     \* scenario S3: task -> the node its backend request went to
    ctx,        \* one call of build_conversation_context: arguments and result
    batch_status \* chat_batches.status of each committed batch row

\* the state that start_worker's message handling of a decodable payload
\* never touches
\* the state of the router calls and of the gateway
more == <<dp, drows, streams, node_rows, served, ctx>>
others == <<meta, rt, gw, batch_rows, batch_tasks, polled, batch_status, more>>
rest == <<dlq, others>>

vars == <<tasks, nodes, disp, stream, delivered, pel, age, wk, calls,
          crashes, ackFails, claimer, rest>>

ConvIds == {"c1"}
Slots == {0, 1}

\* session_metadata with neither key set (None or {})
EmptyMeta == [assigned_node_url |-> Null, node_slots |-> [i \in Slots |-> Null]]

\* no router call in progress
RtIdle == [pc |-> "idle", conv |-> "none", slot |-> 0, active |-> {},
           target |-> Null, changed |-> FALSE, wrote |-> FALSE,
           newmeta |-> EmptyMeta, context |-> "none"]

\* one batch per request
BatchIds == {"b1", "b2"}

StreamKeys == {"gemini_stream", "qwen_stream", "deepseek_stream", "sd_stream"}

\* no call of dispatch_tasks in progress
DpIdle == [pc |-> "idle", model_config |-> <<>>, gemini_concurrency |-> 1,
           model_list |-> <<>>, mi |-> 0, target_urls |-> <<>>, si |-> 0,
           created_task_ids |-> <<>>]

\* no call of build_conversation_context made yet
CtxIdle == [pc |-> "idle", rows |-> <<>>, conversation_id |-> "None",
            current_prompt |-> "", limit |-> 0, messages |-> <<>>]

MoreInit ==
    /\ ctx = CtxIdle
    /\ dp = DpIdle
    /\ drows = <<>>
    /\ streams = [k \in StreamKeys |-> <<>>]
    /\ node_rows = [n \in NodeUrls |-> [status |-> "HEALTHY", fresh |-> TRUE]]
    /\ served = [t \in TaskIds |-> Null]

RestInit ==
    /\ dlq = <<>>
    /\ meta = [c \in ConvIds |-> EmptyMeta]
    /\ rt = [w \in Workers |-> RtIdle]
    /\ gw = [b \in BatchIds |-> [pc |-> "idle", todo |-> 0]]
    /\ batch_rows = {}
    /\ batch_tasks = [b \in BatchIds |-> <<>>]
    /\ polled = [batch |-> "none", status |-> "none", results |-> 0]
    /\ batch_status = [b \in BatchIds |-> "NOROW"]
    /\ MoreInit

NoRow == [status |-> NOROW, response_text |-> Null, error_msg |-> Null]
\* db.add(new_task) without the commit: no row is visible to a worker
UncommittedRow == NoRow

\* models.Task(..., status=TaskStatus.PENDING); db.add; db.commit
NewRow == [status |-> PENDING, response_text |-> Null, error_msg |-> Null]

\* a worker blocked in the main loop's xreadgroup('>'), no message in hand
Idle == [pc |-> "main", mode |-> "main", msg |-> 0, chk |-> FALSE,
         attempt |-> 0, cand |-> Null, held |-> Null, resp |-> Null,
         err |-> Null, site |-> "try", exc |-> FALSE, called |-> FALSE,
         began |-> NOROW, recq |-> <<>>, recSeen |-> {}, recMid |-> {},
         dbdown |-> FALSE, casn |-> 0, nonode |-> FALSE, refused |-> FALSE,
         upfail |-> FALSE]

Down == [Idle EXCEPT !.pc = "down", !.mode = "down"]

TaskOf(m) == stream[m].task

\* current_time - msg_timestamp > 60000
Expired(m) == age[m] > ExpireMs

NoThreads == [i \in 1..NumThreads |-> [pc |-> "off", success |-> FALSE]]

Init ==
    /\ tasks = [t \in TaskIds |-> NoRow]
    /\ nodes = [n \in NodeUrls |-> [alive |-> TRUE, dispatched_tasks |-> 0]]
    /\ disp = [t \in TaskIds |-> "idle"]
    /\ stream = <<>>
    /\ delivered = 0
    /\ pel = [w \in Workers |-> {}]
    /\ age = <<>>
    /\ wk = [w \in Workers |-> Idle]
    /\ calls = [t \in TaskIds |-> 0]
    /\ crashes = 0
    /\ ackFails = 0
    /\ claimer = NoThreads
    /\ RestInit

\* dispatch_tasks creates and enqueues the tasks of a submission one after
\* the other, in the order of its fan-out loop
FanOutBefore(u, t) == u = "t1" /\ t = "t2"

(* ------------------------------------------------------------------ *)
(* Dispatcher: _dispatch_single_task                                    *)
(* ------------------------------------------------------------------ *)
\* _select_target_nodes for a fan-out of two: the i-th task gets the i-th
\* node of random.sample (one order of the sample; no reader of the field
\* exists in the worker)
SelectTargetNodes(t) == IF t = "t1" THEN <<"n1">> ELSE <<"n2">>

\* db.add(new_task); db.commit()
DispatchCreate(t) ==
    /\ disp[t] = "idle"
    /\ \A u \in TaskIds : FanOutBefore(u, t) => disp[u] = "done"
    /\ tasks' = [tasks EXCEPT ![t] = NewRow]
    /\ disp' = [disp EXCEPT ![t] = "created"]
    /\ UNCHANGED <<rest, nodes, stream, delivered, pel, age, wk, calls,
                   crashes, ackFails, claimer>>

\* dispatch_to_stream (xadd); on an exception the task is marked FAILED
DispatchSend(t, ok) ==
    /\ disp[t] = "created"
    /\ disp' = [disp EXCEPT ![t] = "done"]
    /\ IF ok
       THEN /\ stream' = Append(stream, [task |-> t,
                                           target_node_url |-> SelectTargetNodes(t)])
            /\ age' = Append(age, 0)
            /\ tasks' = tasks
       ELSE /\ stream' = stream
            /\ age' = age
            /\ tasks' = [tasks EXCEPT ![t].status = FAILED, ![t].error_msg = MSG_MQ]
    /\ UNCHANGED <<rest, nodes, delivered, pel, wk, calls,
                   crashes, ackFails, claimer>>

(* ------------------------------------------------------------------ *)
(* Worker: start_worker main loop and run_chat_task                     *)
(* ------------------------------------------------------------------ *)
\* run_chat_task entered for entry m (payload parsed)
StartRun(w, m, check_idempotency, mode) ==
    [wk[w] EXCEPT !.pc = IF check_idempotency THEN "claim" ELSE "route",
                  !.mode = mode, !.msg = m, !.chk = check_idempotency,
                  !.attempt = 0, !.cand = Null, !.held = Null, !.resp = Null,
                  !.err = Null, !.site = "try", !.exc = FALSE, !.called = FALSE,
                  !.began = tasks[TaskOf(m)].status,
                  !.dbdown = FALSE, !.casn = 0, !.nonode = FALSE,
                  !.refused = FALSE, !.upfail = FALSE]

\* run_chat_task returned (or raised, wk[w].exc): back to its caller
Return(w, rec) ==
    IF rec.mode = "rec" /\ ~rec.exc /\ Len(rec.recq) > 1
    THEN [Idle EXCEPT !.pc = "rec_pre", !.mode = "rec", !.recq = Tail(rec.recq),
                      !.recSeen = rec.recSeen, !.recMid = rec.recMid]
    ELSE Idle

\* after the xack (or its exception in a handler): the finally block
AfterAck(w, rec) ==
    IF rec.held # Null THEN [rec EXCEPT !.pc = "release"] ELSE Return(w, rec)

\* xreadgroup(GROUP, CONSUMER, {STREAM: '>'}, count=1), then
\* process_message(..., check_idempotency=False)
MainRead(w) ==
    /\ wk[w].pc = "main"
    /\ delivered < Len(stream)
    /\ delivered' = delivered + 1
    /\ pel' = [pel EXCEPT ![w] = @ \cup {delivered + 1}]
    /\ wk' = [wk EXCEPT ![w] = StartRun(w, delivered + 1, FALSE, "main")]
    /\ UNCHANGED <<rest, tasks, nodes, disp, stream, age, calls,
                   crashes, ackFails, claimer>>

\* if check_idempotency: if not claim_task(db, task_id): xack; return
Claim(w) ==
    /\ wk[w].pc = "claim"
    /\ tasks' = claim_task(tasks, TaskOf(wk[w].msg))
    /\ wk' = [wk EXCEPT ![w].pc =
                 IF claim_task_result(tasks, TaskOf(wk[w].msg)) THEN "route" ELSE "ack",
                         ![w].refused = ~claim_task_result(tasks, TaskOf(wk[w].msg))]
    /\ UNCHANGED <<rest, nodes, disp, stream, delivered, pel, age, calls,
                   crashes, ackFails, claimer>>

\* claim_task while the database is unreachable: the exception is caught,
\* rolled back and logged, claim_task returns False; then xack; return
ClaimDbDown(w) ==
    /\ wk[w].pc = "claim"
    /\ wk' = [wk EXCEPT ![w].pc = "ack", ![w].dbdown = TRUE]
    /\ UNCHANGED <<rest, tasks, nodes, disp, stream, delivered, pel, age, calls,
                   crashes, ackFails, claimer>>

\* acquire_node_with_retry gave up: mark_task_failed(MSG_NO_NODE), then xack
NoTarget(rec) == [rec EXCEPT !.pc = "markfail", !.err = MSG_NO_NODE, !.site = "try",
                             !.nonode = TRUE]

\* acquire_node_with_retry, one get_database_target_url of its loop
Route(w) ==
    /\ wk[w].pc = "route"
    /\ \E n \in (IF ActiveNodes(nodes) = {} THEN {Null} ELSE ActiveNodes(nodes)) :
         wk' = [wk EXCEPT ![w] =
                  IF n = Null
                  THEN IF wk[w].attempt = 0 \/ wk[w].attempt + 1 >= max_retries
                       THEN NoTarget(wk[w])
                       ELSE [wk[w] EXCEPT !.attempt = @ + 1]
                  ELSE [wk[w] EXCEPT !.pc = "cas", !.cand = FinalUrl(n)]]
    /\ UNCHANGED <<rest, tasks, nodes, disp, stream, delivered, pel, age, calls,
                   crashes, ackFails, claimer>>

\* acquire_node_with_retry, one atomic_claim_node of its loop
Cas(w) ==
    /\ wk[w].pc = "cas"
    /\ nodes' = atomic_claim_node(nodes, wk[w].cand)
    /\ wk' = [wk EXCEPT ![w] =
                IF atomic_claim_node_result(nodes, wk[w].cand)
                THEN [wk[w] EXCEPT !.held = wk[w].cand, !.casn = @ + 1,
                                   !.pc = IF FilePaths(TaskOf(wk[w].msg)) # <<>>
                                          THEN "upload" ELSE "call"]
                ELSE IF wk[w].attempt + 1 >= max_retries
                     THEN NoTarget([wk[w] EXCEPT !.cand = Null, !.casn = @ + 1])
                     ELSE [wk[w] EXCEPT !.pc = "route", !.cand = Null,
                                        !.attempt = @ + 1, !.casn = @ + 1]]
    /\ UNCHANGED <<rest, tasks, disp, stream, delivered, pel, age, calls,
                   crashes, ackFails, claimer>>

\* upload_files_to_downstream; an empty result raises RuntimeError
Upload(w, ok) ==
    /\ wk[w].pc = "upload"
    /\ wk' = [wk EXCEPT ![w] =
                IF ok THEN [wk[w] EXCEPT !.pc = "call"]
                ELSE [wk[w] EXCEPT !.pc = "markfail", !.err = MSG_UPLOAD,
                                   !.site = "handler", !.upfail = TRUE]]
    /\ UNCHANGED <<rest, tasks, nodes, disp, stream, delivered, pel, age, calls,
                   crashes, ackFails, claimer>>

Outcomes == {"ok", "refusal", "null_content", "non200", "connect_timeout",
             "read_timeout", "request_exception"}

ErrorOf(outcome) ==
    CASE outcome = "non200" -> MSG_API_ERROR
      [] outcome = "connect_timeout" -> MSG_CONNECT_TIMEOUT
      [] outcome = "read_timeout" -> MSG_TIMEOUT
      [] OTHER -> MSG_NETWORK

\* ai_text = res_json['choices'][0]['message']['content']
TextOf(outcome, k) ==
    CASE outcome = "ok" -> TextOk \o <<CallTag(k)>>
      [] outcome = "refusal" -> TextRefusal
      [] OTHER -> Null

\* requests.post(target_url, json=payload, timeout=request_timeout)
CallBody(w, outcome) ==
    /\ wk[w].pc = "call"
    /\ calls' = [calls EXCEPT ![TaskOf(wk[w].msg)] = @ + 1]
    /\ wk' = [wk EXCEPT ![w] =
                IF outcome \in {"ok", "refusal", "null_content"}
                THEN [wk[w] EXCEPT !.pc = "result", !.called = TRUE,
                         !.resp = TextOf(outcome, calls[TaskOf(wk[w].msg)] + 1)]
                ELSE [wk[w] EXCEPT !.pc = "markfail", !.called = TRUE,
                         !.err = ErrorOf(outcome), !.site = "handler"]]
    /\ UNCHANGED <<tasks, nodes, disp, stream, delivered, pel, age,
                   crashes, ackFails, claimer>>
    /\ UNCHANGED <<dlq, meta, rt, gw, batch_rows, batch_tasks, polled,
                   batch_status, dp, drows, streams, node_rows, ctx>>

Call(w, outcome) == CallBody(w, outcome) /\ UNCHANGED served

\* run_chat_task's parameter refusal_keywords: w1 runs a family with a
\* refusal list, w2 a family without one (the default None)
RefusalKeywordsOf(w) == IF w = "w1" THEN RefusalKeywords ELSE {}

\* process_ai_result(db, task_id, ai_text, ...), then xack (line 118)
Result(w) ==
    /\ wk[w].pc = "result"
    /\ tasks' = process_ai_result(tasks, TaskOf(wk[w].msg), wk[w].resp,
                                RefusalKeywordsOf(w))
    /\ wk' = [wk EXCEPT ![w].pc = "ack", ![w].site = "try"]
    /\ UNCHANGED <<rest, nodes, disp, stream, delivered, pel, age, calls,
                   crashes, ackFails, claimer>>

\* mark_task_failed(db, task_id, error_msg), then xack
MarkFail(w) ==
    /\ wk[w].pc = "markfail"
    /\ tasks' = mark_task_failed(tasks, TaskOf(wk[w].msg), wk[w].err)
    /\ wk' = [wk EXCEPT ![w].pc = "ack"]
    /\ UNCHANGED <<rest, nodes, disp, stream, delivered, pel, age, calls,
                   crashes, ackFails, claimer>>

\* redis_client.xack(stream_key, group_name, message_id).  When it raises
\* inside the try block, the generic handler runs (rollback, mark_task_failed,
\* xack again); when it raises inside a handler, the exception leaves
\* run_chat_task after the finally block.
Ack(w, ok) ==
    /\ wk[w].pc = "ack"
    /\ IF ok
       THEN /\ pel' = [pel EXCEPT ![w] = @ \ {wk[w].msg}]
            /\ ackFails' = ackFails
            /\ wk' = [wk EXCEPT ![w] = AfterAck(w, wk[w])]
       ELSE /\ crashes + ackFails < MaxFaults
            /\ pel' = pel
            /\ ackFails' = ackFails + 1
            /\ wk' = [wk EXCEPT ![w] =
                        IF wk[w].site = "try"
                        THEN [wk[w] EXCEPT !.pc = "markfail", !.err = MSG_INTERNAL,
                                           !.site = "handler"]
                        ELSE AfterAck(w, [wk[w] EXCEPT !.exc = TRUE])]
    /\ UNCHANGED <<rest, tasks, nodes, disp, stream, delivered, age, calls,
                   crashes, claimer>>

\* finally: release_node_safe(db, node_url_for_release); db.close()
Release(w) ==
    /\ wk[w].pc = "release"
    /\ nodes' = release_node_safe(nodes, wk[w].held)
    /\ wk' = [wk EXCEPT ![w] = Return(w, wk[w])]
    /\ UNCHANGED <<rest, tasks, disp, stream, delivered, pel, age, calls,
                   crashes, ackFails, claimer>>


(* ------------------------------------------------------------------ *)
(* Process kill, restart and recover_pending_tasks                      *)
(* ------------------------------------------------------------------ *)
\* the worker process is killed: its local state is lost, the DB rows and
\* the consumer's pending list stay as they are.  (The kill of a worker that
\* has no entry in hand and none pending changes nothing and is left out.)
Crash(w) ==
    /\ wk[w].pc # "down"
    /\ wk[w].pc # "main" \/ pel[w] # {}
    /\ crashes + ackFails < MaxFaults
    /\ crashes' = crashes + 1
    /\ wk' = [wk EXCEPT ![w] = Down]
    /\ UNCHANGED <<rest, tasks, nodes, disp, stream, delivered, pel, age, calls,
                   ackFails, claimer>>

\* start_worker with the same CONSUMER_NAME: init_stream, then
\* recover_pending_tasks reads xreadgroup(..., {stream: '0'}, count=50)
Restart(w) ==
    /\ wk[w].pc = "down"
    /\ wk' = [wk EXCEPT ![w] =
                IF pel[w] = {}
                THEN Idle
                ELSE [Idle EXCEPT !.pc = "rec_pre", !.mode = "rec",
                                  !.recq = FirstN(SortedSeq(pel[w]), RecoverCount),
                                  !.recSeen = pel[w],
                                  !.recMid = {m \in pel[w] : calls[TaskOf(m)] >= 1}]]
    /\ UNCHANGED <<rest, tasks, nodes, disp, stream, delivered, pel, age, calls,
                   crashes, ackFails, claimer>>

\* recover_pending_tasks, an entry older than 60 s: xack and continue.  When
\* the xack raises, the inner except logs it and the callback runs.
RecExpire(w, ok) ==
    /\ wk[w].pc = "rec_pre"
    /\ Expired(Head(wk[w].recq))
    /\ IF ok
       THEN /\ pel' = [pel EXCEPT ![w] = @ \ {Head(wk[w].recq)}]
            /\ ackFails' = ackFails
            /\ wk' = [wk EXCEPT ![w] = Return(w, wk[w])]
       ELSE /\ crashes + ackFails < MaxFaults
            /\ pel' = pel
            /\ ackFails' = ackFails + 1
            /\ wk' = [wk EXCEPT ![w] = StartRun(w, Head(wk[w].recq), TRUE, "rec")]
    /\ UNCHANGED <<rest, tasks, nodes, disp, stream, delivered, age, calls,
                   crashes, claimer>>

\* recover_pending_tasks, a younger entry: zombie reset, then
\* process_callback(message_id, message_data, check_idempotency=True)
RecReset(w) ==
    /\ wk[w].pc = "rec_pre"
    /\ ~Expired(Head(wk[w].recq))
    /\ tasks' = zombie_reset(tasks, TaskOf(Head(wk[w].recq)))
    /\ wk' = [wk EXCEPT ![w] = StartRun(w, Head(wk[w].recq), TRUE, "rec")]
    /\ UNCHANGED <<rest, nodes, disp, stream, delivered, pel, age, calls,
                   crashes, ackFails, claimer>>

\* time passes: the oldest entry that is not yet older than 60 s becomes so
\* (entry ids are millisecond timestamps, so entries age in stream order)
Tick ==
    /\ \E m \in 1..Len(stream) :
         /\ ~Expired(m)
         /\ \A k \in 1..(m - 1) : Expired(k)
         /\ age' = [age EXCEPT ![m] = ExpireMs + 1]
    /\ UNCHANGED <<rest, tasks, nodes, disp, stream, delivered, pel, wk, calls,
                   crashes, ackFails, claimer>>

(* ------------------------------------------------------------------ *)
(* The system                                                           *)
(* ------------------------------------------------------------------ *)
WorkerStep(w) ==
    \/ MainRead(w)
    \/ Claim(w)
    \/ ClaimDbDown(w)
    \/ Route(w)
    \/ Cas(w)
    \/ \E ok \in BOOLEAN : Upload(w, ok)
    \/ \E outcome \in Outcomes : Call(w, outcome)
    \/ Result(w)
    \/ MarkFail(w)
    \/ \E ok \in BOOLEAN : Ack(w, ok)
    \/ Release(w)
    \/ \E ok \in BOOLEAN : RecExpire(w, ok)
    \/ RecReset(w)

Next ==
    \/ \E t \in TaskIds : DispatchCreate(t)
    \/ \E t \in TaskIds, ok \in BOOLEAN : DispatchSend(t, ok)
    \/ \E w \in Workers : WorkerStep(w)
    \/ \E w \in Workers : Crash(w)
    \/ \E w \in Workers : Restart(w)
    \/ Tick

Spec == Init /\ [][Next]_vars


\* the scheduler runs every live worker, and a supervisor restarts a killed one
FairSpec ==
    /\ Spec
    /\ \A w \in Workers : WF_vars(WorkerStep(w)) /\ WF_vars(Restart(w))

(* ------------------------------------------------------------------ *)
(* tests/test_idempotency.py: NumThreads threads claim one PENDING task *)
(* ------------------------------------------------------------------ *)
TestTask == "t1"

InitClaim ==
    /\ tasks = [t \in TaskIds |-> IF t = TestTask THEN NewRow ELSE NoRow]
    /\ nodes = [n \in NodeUrls |-> [alive |-> TRUE, dispatched_tasks |-> 0]]
    /\ disp = [t \in TaskIds |-> "idle"]
    /\ stream = <<>>
    /\ age = <<>>
    /\ delivered = 0
    /\ pel = [w \in Workers |-> {}]
    /\ wk = [w \in Workers |-> Idle]
    /\ calls = [t \in TaskIds |-> 0]
    /\ crashes = 0
    /\ ackFails = 0
    /\ claimer = [i \in 1..NumThreads |-> [pc |-> "start", success |-> FALSE]]
    /\ RestInit

\* simulate_worker: db = SessionLocal(); time.sleep(0.1)
ThreadSleep(i) ==
    /\ claimer[i].pc = "start"
    /\ claimer' = [claimer EXCEPT ![i].pc = "ready"]
    /\ UNCHANGED <<rest, tasks, nodes, disp, stream, age, delivered, pel, wk, calls,
                   crashes, ackFails>>

\* simulate_worker: success = claim_task(db, task_id)
ThreadClaim(i) ==
    /\ claimer[i].pc = "ready"
    /\ tasks' = claim_task(tasks, TestTask)
    /\ claimer' = [claimer EXCEPT ![i].pc = "claimed",
                                  ![i].success = claim_task_result(tasks, TestTask)]
    /\ UNCHANGED <<rest, nodes, disp, stream, age, delivered, pel, wk, calls,
                   crashes, ackFails>>

\* simulate_worker: results.append(worker_name) if success; db.close()
ThreadClose(i) ==
    /\ claimer[i].pc = "claimed"
    /\ claimer' = [claimer EXCEPT ![i].pc = "done"]
    /\ UNCHANGED <<rest, tasks, nodes, disp, stream, age, delivered, pel, wk, calls,
                   crashes, ackFails>>

NextClaim ==
    \/ \E i \in 1..NumThreads : ThreadSleep(i)
    \/ \E i \in 1..NumThreads : ThreadClaim(i)
    \/ \E i \in 1..NumThreads : ThreadClose(i)

SpecClaim == InitClaim /\ [][NextClaim]_vars

(* ------------------------------------------------------------------ *)
(* Scenario S5: one healthy node, a backend that answers 200 with       *)
(* non-refusal content, a worker killed after the backend call and      *)
(* before the ack and restarted before the entry is 60 s old            *)
(* ------------------------------------------------------------------ *)
InitS5 ==
    /\ tasks = [t \in TaskIds |-> NoRow]
    /\ nodes \in {nd \in [NodeUrls -> {[alive |-> TRUE, dispatched_tasks |-> 0],
                                      [alive |-> FALSE, dispatched_tasks |-> 0]}] :
                     Cardinality({n \in NodeUrls : nd[n].alive}) = 1}
    /\ disp = [t \in TaskIds |-> "idle"]
    /\ stream = <<>>
    /\ age = <<>>
    /\ delivered = 0
    /\ pel = [w \in Workers |-> {}]
    /\ wk = [w \in Workers |-> Idle]
    /\ calls = [t \in TaskIds |-> 0]
    /\ crashes = 0
    /\ ackFails = 0
    /\ claimer = NoThreads
    /\ RestInit

KilledAfterCall(w) == wk[w].called /\ wk[w].msg \in pel[w] /\ Crash(w)

\* a submission is made when the one before it has been worked off
Quiet == /\ \A w \in Workers : wk[w].pc = "main" /\ pel[w] = {}
         /\ delivered = Len(stream)

SubmitWhenQuiet(t) == Quiet /\ DispatchCreate(t)

NextS5 ==
    \/ \E t \in TaskIds : SubmitWhenQuiet(t)
    \/ \E t \in TaskIds : DispatchSend(t, TRUE)
    \/ \E w \in Workers : MainRead(w)
    \/ \E w \in Workers : Claim(w)
    \/ \E w \in Workers : Route(w)
    \/ \E w \in Workers : Cas(w)
    \/ \E w \in Workers : Upload(w, TRUE)
    \/ \E w \in Workers : Call(w, "ok")
    \/ \E w \in Workers : Result(w)
    \/ \E w \in Workers : MarkFail(w)
    \/ \E w \in Workers : Ack(w, TRUE)
    \/ \E w \in Workers : Release(w)
    \/ \E w \in Workers : RecReset(w)
    \/ \E w \in Workers : KilledAfterCall(w)
    \/ \E w \in Workers : Restart(w)

SpecS5 == InitS5 /\ [][NextS5]_vars


(* ================================================================== *)
(* Properties                                                           *)
(* ================================================================== *)
Succeeded == {i \in 1..NumThreads : claimer[i].success}
AllClaimed == \A i \in 1..NumThreads : claimer[i].pc \in {"claimed", "done"}

\* C1: of any number of concurrent claim_task calls on one PENDING task,
\* at most one returns True at any time, and once all have returned exactly
\* one has returned True, the others False, and the task is PROCESSING.
C1_ExactlyOneClaim ==
    /\ Cardinality(Succeeded) <= 1
    /\ AllClaimed => /\ Cardinality(Succeeded) = 1
                     /\ tasks[TestTask].status = PROCESSING

C1_Witness ==
    /\ \A i \in 1..NumThreads : claimer[i].pc = "done"
    /\ Cardinality(Succeeded) = 1
    /\ Cardinality({i \in 1..NumThreads : ~claimer[i].success}) = NumThreads - 1

\* C2: at most one worker holds a node at any instant: two workers never
\* hold the same node, and while a worker holds a node (from its successful
\* atomic_claim_node to its release) the node's dispatched_tasks is 1, the
\* value on which every other atomic_claim_node fails.
C2_NodeExclusive ==
    \A w1 \in Workers :
        wk[w1].held # Null =>
            /\ nodes[BaseUrl(wk[w1].held)].dispatched_tasks = 1
            /\ \A w2 \in Workers \ {w1} :
                 wk[w2].held # Null => BaseUrl(wk[w2].held) # BaseUrl(wk[w1].held)

\* a worker holds a node while another worker's CAS on a node has failed
C2_Witness ==
    \E w1 \in Workers, w2 \in Workers :
        /\ w1 # w2
        /\ wk[w1].held # Null
        /\ wk[w2].pc = "route" /\ wk[w2].attempt >= 1 /\ wk[w2].held = Null

\* C3: terminal states are immutable: once a task is SUCCESS or FAILED no
\* step changes its status.
C3_TerminalImmutable ==
    [][\A t \in TaskIds :
          tasks[t].status \in Terminal => tasks'[t].status = tasks[t].status]_vars

\* C4: every status change a worker makes follows PENDING -> PROCESSING ->
\* (SUCCESS | FAILED): a task a worker brings to a terminal state was
\* PROCESSING immediately before.  (Steps of the dispatcher, which change
\* disp, are not a worker's.)
C4_ViaProcessing ==
    [][\A t \in TaskIds :
          (disp' = disp /\ tasks'[t].status \in Terminal
                        /\ tasks[t].status # tasks'[t].status)
             => tasks[t].status = PROCESSING]_vars

\* C5: no message is acked while its task is not terminal: at every xack
\* (an entry leaves a pending list) the referenced task is SUCCESS or FAILED.
C5_AckOnlyTerminal ==
    [][\A w \in Workers : \A m \in pel[w] :
          m \notin pel'[w] => tasks[TaskOf(m)].status \in Terminal]_vars

\* run_chat_task is running in worker w
InRun(w) == wk[w].pc \in {"claim", "route", "cas", "upload", "call", "result",
                          "markfail", "ack", "release"}

\* C6: a processing of an entry whose task has already reached a terminal
\* state (a replay) makes no backend call and does not write the task's
\* status, response_text or error_msg.
C6_ReplayNoEffect ==
    [][\A w \in Workers :
          (InRun(w) /\ wk[w].began \in Terminal)
             => /\ tasks'[TaskOf(wk[w].msg)] = tasks[TaskOf(wk[w].msg)]
                /\ calls'[TaskOf(wk[w].msg)] = calls[TaskOf(wk[w].msg)]]_vars

\* recover_pending_tasks of worker w returns in this step
RecoveryReturns(w) == wk[w].mode = "rec" /\ wk'[w].mode = "main"

\* C7: when recover_pending_tasks of a restarted worker has finished, no
\* task referenced by an entry that was in its pending list is PROCESSING.
C7_NoneLeftProcessing ==
    [][\A w \in Workers :
          RecoveryReturns(w) =>
             \A m \in wk[w].recSeen : tasks'[TaskOf(m)].status # PROCESSING]_vars

\* C8: after one kill between the backend call and the ack, when the
\* restarted worker's recovery pass has finished, the task is terminal and
\* the backend was called once, or twice with the second answer not stored.
C8_CrashRecoveryOutcome ==
    [][\A w \in Workers :
          (RecoveryReturns(w) /\ crashes = 1 /\ ackFails = 0) =>
             \A m \in wk[w].recMid :
                /\ tasks'[TaskOf(m)].status \in Terminal
                /\ \/ calls'[TaskOf(m)] = 1
                   \/ /\ calls'[TaskOf(m)] = 2
                      /\ tasks'[TaskOf(m)].response_text # TextOf("ok", 2)]_vars

\* C9 (scenario S5): the task is never FAILED, and once its entry has been
\* acked it is SUCCESS.
C9_S5Success ==
    \A m \in 1..Len(stream) :
        /\ tasks[TaskOf(m)].status # FAILED
        /\ (m <= delivered /\ \A w \in Workers : m \notin pel[w])
              => tasks[TaskOf(m)].status = SUCCESS

MaxEntries == Cardinality(TaskIds)

\* C10: from any state where a task is terminal and its message is still
\* pending, the message is eventually acked.
C10_EventuallyAcked ==
    \A w \in Workers : \A m \in 1..MaxEntries :
        (m \in pel[w] /\ tasks[TaskOf(m)].status \in Terminal) ~> (m \notin pel[w])

\* C11: in every reachable state every node's dispatched_tasks is 0 or 1; a
\* release never drives the counter below 0.
C11_CounterInRange ==
    \A n \in NodeUrls : nodes[n].dispatched_tasks \in 0..1

\* a run that reserved a node has released it and returned
C11_Witness ==
    /\ \E m \in 1..Len(stream) :
          /\ calls[TaskOf(m)] >= 1
          /\ m <= delivered /\ \A w \in Workers : m \notin pel[w]
    /\ crashes = 0
    /\ \A w \in Workers : wk[w].pc = "main"
    /\ \A n \in NodeUrls : nodes[n].dispatched_tasks = 0

\* run_chat_task of worker w returns in this step
RunReturns(w) == InRun(w) /\ wk'[w].pc \in {"main", "rec_pre"}

\* C12: every run of run_chat_task in which a worker-local failure occurred
\* (no node, upload failure, non-200, timeouts, transport error, internal
\* exception) ends with the task FAILED with a non-null error_msg, the
\* message acked and the node the worker held released.
C12_FailureEndsClean ==
    [][\A w \in Workers :
          (RunReturns(w) /\ wk[w].err # Null) =>
             /\ tasks'[TaskOf(wk[w].msg)].status = FAILED
             /\ tasks'[TaskOf(wk[w].msg)].error_msg # Null
             /\ wk[w].msg \notin pel'[w]
             /\ wk[w].held # Null =>
                   nodes'[BaseUrl(wk[w].held)].dispatched_tasks = 0]_vars

(* ------------------------------------------------------------------ *)
(* parse_and_validate and send_to_dlq: entries whose payload is empty,  *)
(* undecodable, or decodes to a falsy value                             *)
(* ------------------------------------------------------------------ *)
MaxRaw == 2                  \* raw entries appended in one behaviour
DlqMaxLen == 10000           \* xadd(DLQ_STREAM_KEY, dead_msg, maxlen=10000)

\* payloads as token sequences
EmptyPayload == <<>>
BadJson == <<"{", "task_id", ":">>
JsonNull == <<"null">>
JsonEmptyObj == <<"{", "}">>
JsonEmptyList == <<"[", "]">>
JsonNumber == <<"5">>
RawPayloads == {EmptyPayload, BadJson, JsonNull, JsonEmptyObj, JsonEmptyList,
                JsonNumber}

\* json.loads(payload_bytes) does not raise
JsonDecodable(p) ==
    \/ p = <<"null">> \/ p = <<"[", "]">> \/ p = <<"5">>
    \/ /\ Len(p) \in {2, 5} /\ p[1] = "{" /\ p[Len(p)] = "}"
       /\ Len(p) = 5 => p[3] = ":"

\* parse_and_validate writes a dead letter and acks: "if not payload_bytes"
\* or json.loads raised
IsPoison(p) == p = EmptyPayload \/ ~JsonDecodable(p)

\* send_to_dlq: the dead_msg it builds
DeadMsg(message_id, raw_payload, source) ==
    [original_id |-> message_id,
     error |-> IF raw_payload = EmptyPayload THEN <<"Empty Payload">>
               ELSE <<"JSON Error: ">>,
     source_worker |-> source,
     raw_payload |-> IF raw_payload = EmptyPayload THEN <<"None">> ELSE raw_payload]

\* xadd(key, fields, maxlen=n): append, then trim to the newest n entries
XaddMaxlen(s, e, n) ==
    IF Len(s) + 1 > n THEN SubSeq(Append(s, e), Len(s) + 2 - n, Len(s) + 1)
    ELSE Append(s, e)

InitDlq ==
    /\ tasks = [t \in TaskIds |-> NewRow]
    /\ nodes = [n \in NodeUrls |-> [alive |-> TRUE, dispatched_tasks |-> 0]]
    /\ disp = [t \in TaskIds |-> "done"]
    /\ stream = <<>>
    /\ age = <<>>
    /\ delivered = 0
    /\ pel = [w \in Workers |-> {}]
    /\ wk = [w \in Workers |-> Idle]
    /\ calls = [t \in TaskIds |-> 0]
    /\ crashes = 0
    /\ ackFails = 0
    /\ claimer = NoThreads
    /\ RestInit

\* some producer appends an entry with a raw payload
RawXadd(p) ==
    /\ Len(stream) < MaxRaw
    /\ stream' = Append(stream, [payload |-> p])
    /\ age' = Append(age, 0)
    /\ UNCHANGED <<others, tasks, nodes, disp, delivered, pel, wk, calls, crashes,
                   ackFails, claimer, rest>>

\* "not task_data" for the value json.loads returns: None, {} and []
JsonFalsy(p) == p = <<"null">> \/ (Len(p) = 2 /\ p[1] \in {"{", "["})

\* run_chat_task entered for entry m: parse_and_validate looks at the
\* payload; "if not task_data: return"; task_data.get of a value that is
\* not an object raises AttributeError before the try block
StartParse(w, m, mode) ==
    IF IsPoison(stream[m].payload)
    THEN [wk[w] EXCEPT !.pc = "p_dlq", !.mode = mode, !.msg = m]
    ELSE IF JsonFalsy(stream[m].payload)
    THEN Return(w, [wk[w] EXCEPT !.mode = mode])
    ELSE Return(w, [wk[w] EXCEPT !.mode = mode, !.exc = TRUE])

\* main loop: xreadgroup('>'), process_message, parse_and_validate
MainReadRaw(w) ==
    /\ wk[w].pc = "main"
    /\ delivered < Len(stream)
    /\ delivered' = delivered + 1
    /\ pel' = [pel EXCEPT ![w] = @ \cup {delivered + 1}]
    /\ wk' = [wk EXCEPT ![w] = StartParse(w, delivered + 1, "main")]
    /\ UNCHANGED <<others, tasks, nodes, disp, stream, age, calls, crashes, ackFails,
                   claimer, rest>>

\* send_to_dlq: xadd to sys_dead_letters; an exception is logged and swallowed
SendToDlq(w, ok) ==
    /\ wk[w].pc = "p_dlq"
    /\ IF ok
       THEN /\ dlq' = XaddMaxlen(dlq, DeadMsg(wk[w].msg, stream[wk[w].msg].payload, w),
                                 DlqMaxLen)
            /\ ackFails' = ackFails
       ELSE /\ crashes + ackFails < MaxFaults
            /\ dlq' = dlq
            /\ ackFails' = ackFails + 1
    /\ wk' = [wk EXCEPT ![w].pc = "p_ack"]
    /\ UNCHANGED <<others, tasks, nodes, disp, stream, age, delivered, pel, calls,
                   crashes, claimer>>

\* parse_and_validate: xack, return None; an exception of the xack leaves
\* run_chat_task (the call is before its try block)
ParseAck(w, ok) ==
    /\ wk[w].pc = "p_ack"
    /\ IF ok
       THEN /\ pel' = [pel EXCEPT ![w] = @ \ {wk[w].msg}]
            /\ ackFails' = ackFails
            /\ wk' = [wk EXCEPT ![w] = Return(w, wk[w])]
       ELSE /\ crashes + ackFails < MaxFaults
            /\ pel' = pel
            /\ ackFails' = ackFails + 1
            /\ wk' = [wk EXCEPT ![w] = Return(w, [wk[w] EXCEPT !.exc = TRUE])]
    /\ UNCHANGED <<others, tasks, nodes, disp, stream, age, delivered, calls,
                   crashes, claimer, rest>>

\* start_worker after a kill: recover_pending_tasks reads the pending list
RestartRaw(w) ==
    /\ wk[w].pc = "down"
    /\ wk' = [wk EXCEPT ![w] =
                IF pel[w] = {}
                THEN Idle
                ELSE [Idle EXCEPT !.pc = "rec_pre", !.mode = "rec",
                                  !.recq = FirstN(SortedSeq(pel[w]), RecoverCount),
                                  !.recSeen = pel[w]]]
    /\ UNCHANGED <<others, tasks, nodes, disp, stream, delivered, pel, age, calls,
                   crashes, ackFails, claimer, rest>>

\* recover_pending_tasks, an entry older than 60 s: xack and continue
RecExpireRaw(w, ok) ==
    /\ wk[w].pc = "rec_pre"
    /\ Expired(Head(wk[w].recq))
    /\ IF ok
       THEN /\ pel' = [pel EXCEPT ![w] = @ \ {Head(wk[w].recq)}]
            /\ ackFails' = ackFails
            /\ wk' = [wk EXCEPT ![w] = Return(w, wk[w])]
       ELSE /\ crashes + ackFails < MaxFaults
            /\ pel' = pel
            /\ ackFails' = ackFails + 1
            /\ wk' = [wk EXCEPT ![w] = StartParse(w, Head(wk[w].recq), "rec")]
    /\ UNCHANGED <<others, tasks, nodes, disp, stream, delivered, age, calls,
                   crashes, claimer, rest>>

\* recover_pending_tasks, a younger entry: the pre-check finds no task_id
\* (or raises and is logged), then process_callback
RecCallbackRaw(w) ==
    /\ wk[w].pc = "rec_pre"
    /\ ~Expired(Head(wk[w].recq))
    /\ wk' = [wk EXCEPT ![w] = StartParse(w, Head(wk[w].recq), "rec")]
    /\ UNCHANGED <<others, tasks, nodes, disp, stream, delivered, pel, age, calls,
                   crashes, ackFails, claimer, rest>>

NextDlq ==
    \/ \E p \in RawPayloads : RawXadd(p)
    \/ \E w \in Workers : MainReadRaw(w)
    \/ \E w \in Workers, ok \in BOOLEAN : SendToDlq(w, ok)
    \/ \E w \in Workers, ok \in BOOLEAN : ParseAck(w, ok)
    \/ \E w \in Workers : Crash(w)
    \/ \E w \in Workers : RestartRaw(w)
    \/ \E w \in Workers, ok \in BOOLEAN : RecExpireRaw(w, ok)
    \/ \E w \in Workers : RecCallbackRaw(w)
    \/ Tick

SpecDlq == InitDlq /\ [][NextDlq]_vars

\* C13: a message whose payload is empty or undecodable is acked only after a
\* dead letter carrying its id has been written, and no Task row changes.
C13_AckAfterDeadLetter ==
    [][/\ tasks' = tasks
       /\ \A w \in Workers : \A m \in pel[w] :
            (m \notin pel'[w] /\ IsPoison(stream[m].payload))
               => \E i \in 1..Len(dlq) : dlq[i].original_id = m]_vars

\* C14: when the database is unreachable at the idempotent claim of a
\* message, the worker does not ack it: it stays in the pending list.
C14_DbDownStaysPending ==
    [][\A w \in Workers :
          (InRun(w) /\ wk[w].dbdown /\ wk[w].msg \in pel[w])
             => wk[w].msg \in pel'[w]]_vars

(* ------------------------------------------------------------------ *)
(* get_database_target_url with a conversation: sticky session          *)
(* ------------------------------------------------------------------ *)
\* "if conv and conv.session_metadata": a non-empty dict
MetaTruthy(m) ==
    m.assigned_node_url # Null \/ \E i \in Slots : m.node_slots[i] # Null

\* last_node_url as line 85 reads it
RouterLastNodeUrl(m, slot_id, healthy_map) ==
    LET first == IF MetaTruthy(m) THEN m.assigned_node_url ELSE Null
    IN  IF first # Null /\ first \in healthy_map
        THEN IF m.node_slots[slot_id] # Null THEN m.node_slots[slot_id]
             ELSE m.assigned_node_url
        ELSE first

\* the sticky branch without the second look into healthy_map
RouterStickyUnchecked(m, slot_id, healthy_map) ==
    LET first == IF MetaTruthy(m) THEN m.assigned_node_url ELSE Null
        last == IF first # Null THEN
                   (IF m.node_slots[slot_id] # Null THEN m.node_slots[slot_id]
                    ELSE m.assigned_node_url)
                ELSE Null
    IN  last

\* the node the sticky branch selects, Null when it selects none
RouterSticky(m, slot_id, healthy_map) ==
    LET first == IF MetaTruthy(m) THEN m.assigned_node_url ELSE Null
        last == RouterLastNodeUrl(m, slot_id, healthy_map)
    IN  IF first # Null /\ first \in healthy_map /\ last # Null /\ last \in healthy_map
        THEN last ELSE Null

\* random.choice over every node of the table
RandomChoicesAnyNode(active_nodes) == NodeUrls

\* random.choice(active_nodes): the values it can return
RandomChoices(active_nodes) == active_nodes

\* get_database_target_url with a non-empty active_nodes; has_conv: the
\* conversation row was found; pick: the value random.choice would return
RouterResult(m, has_conv, slot_id, healthy_map, pick) ==
    LET sticky == IF has_conv THEN RouterSticky(m, slot_id, healthy_map) ELSE Null
        last == IF has_conv THEN RouterLastNodeUrl(m, slot_id, healthy_map) ELSE Null
        target_url == IF sticky # Null THEN sticky ELSE pick
        writes == sticky = Null /\ has_conv
    IN  [target |-> target_url,
         final_url |-> FinalUrl(target_url),
         changed |-> last # target_url,
         wrote |-> writes,
         newmeta |-> IF writes THEN [m EXCEPT !.node_slots[slot_id] = target_url]
                     ELSE m]

\* rows written before node_slots existed carry assigned_node_url
InitRoute ==
    /\ tasks = [t \in TaskIds |-> NoRow]
    /\ nodes = [n \in NodeUrls |-> [alive |-> TRUE, dispatched_tasks |-> 0]]
    /\ disp = [t \in TaskIds |-> "idle"]
    /\ stream = <<>>
    /\ age = <<>>
    /\ delivered = 0
    /\ pel = [w \in Workers |-> {}]
    /\ wk = [w \in Workers |-> Idle]
    /\ calls = [t \in TaskIds |-> 0]
    /\ crashes = 0
    /\ ackFails = 0
    /\ claimer = NoThreads
    /\ dlq = <<>>
    /\ meta \in [ConvIds -> {[EmptyMeta EXCEPT !.assigned_node_url = u] :
                               u \in NodeUrls \cup {Null}}]
    /\ rt = [w \in Workers |-> RtIdle]
    /\ gw = [b \in BatchIds |-> [pc |-> "idle", todo |-> 0]]
    /\ batch_rows = {}
    /\ batch_tasks = [b \in BatchIds |-> <<>>]
    /\ polled = [batch |-> "none", status |-> "none", results |-> 0]
    /\ batch_status = [b \in BatchIds |-> "NOROW"]
    /\ MoreInit

RouteFrame == UNCHANGED <<tasks, disp, stream, age, delivered, pel, wk, calls,
                          crashes, ackFails, claimer, dlq, gw, batch_rows,
                          batch_tasks, polled, batch_status, more>>

\* get_database_target_url, lines 15-28: the query of the active nodes;
\* pc "none": the call returned (None, False) and the caller gave up
RtQuery(w, c, slot_id) ==
    /\ rt[w].pc \in {"idle", "none"}
    /\ rt' = [rt EXCEPT ![w] =
                IF ActiveNodes(nodes) = {} THEN [RtIdle EXCEPT !.pc = "none"]
                ELSE [RtIdle EXCEPT !.pc = "queried", !.conv = c, !.slot = slot_id,
                                    !.active = ActiveNodes(nodes)]]
    /\ UNCHANGED <<nodes, meta>>
    /\ RouteFrame

\* get_database_target_url, lines 37-87: sticky lookup, random pick, the
\* write of node_slots into the session's Conversation object
RtSelect(w, pick) ==
    /\ rt[w].pc = "queried"
    /\ pick \in RandomChoices(rt[w].active)
    /\ LET has_conv == rt[w].conv \in ConvIds
           m == IF has_conv THEN meta[rt[w].conv] ELSE EmptyMeta
           r == RouterResult(m, has_conv, rt[w].slot, rt[w].active, pick)
       IN  rt' = [rt EXCEPT ![w].pc = "selected", ![w].target = r.final_url,
                            ![w].changed = r.changed, ![w].wrote = r.wrote,
                            ![w].newmeta = r.newmeta]
    /\ UNCHANGED <<nodes, meta>>
    /\ RouteFrame

\* atomic_claim_node: the CAS and db.commit(), which also flushes the
\* Conversation object; then run_chat_task builds messages_payload
RtCas(w) ==
    /\ rt[w].pc = "selected"
    /\ nodes' = atomic_claim_node(nodes, rt[w].target)
    /\ meta' = IF rt[w].wrote THEN [meta EXCEPT ![rt[w].conv] = rt[w].newmeta]
               ELSE meta
    /\ rt' = [rt EXCEPT ![w] =
                IF atomic_claim_node_result(nodes, rt[w].target)
                THEN [rt[w] EXCEPT !.pc = "held",
                         !.context = IF rt[w].changed THEN "history" ELSE "prompt"]
                ELSE RtIdle]
    /\ RouteFrame

\* finally: release_node_safe
RtRelease(w) ==
    /\ rt[w].pc = "held"
    /\ nodes' = release_node_safe(nodes, rt[w].target)
    /\ rt' = [rt EXCEPT ![w] = RtIdle]
    /\ UNCHANGED meta
    /\ RouteFrame

\* a node stops or resumes its heartbeat
NodeFlip(n) ==
    /\ nodes' = [nodes EXCEPT ![n].alive = ~@]
    /\ UNCHANGED <<meta, rt>>
    /\ RouteFrame

NextRoute ==
    \/ \E w \in Workers, c \in ConvIds \cup {"none"}, i \in Slots : RtQuery(w, c, i)
    \/ \E w \in Workers, pick \in NodeUrls : RtSelect(w, pick)
    \/ \E w \in Workers : RtCas(w)
    \/ \E w \in Workers : RtRelease(w)
    \/ \E n \in NodeUrls : NodeFlip(n)

SpecRoute == InitRoute /\ [][NextRoute]_vars

\* the router of worker w selects in this step
Selects(w) == rt[w].pc = "queried" /\ rt'[w].pc = "selected"

\* C15: when node_slots[slot] of the conversation records a node that is in
\* the router's set of alive idle nodes, the router selects that node.
C15_StickySelected ==
    [][\A w \in Workers :
          (/\ Selects(w) /\ rt[w].conv \in ConvIds
           /\ meta[rt[w].conv].node_slots[rt[w].slot] # Null
           /\ meta[rt[w].conv].node_slots[rt[w].slot] \in rt[w].active)
             => BaseUrl(rt'[w].target) = meta[rt[w].conv].node_slots[rt[w].slot]]_vars

\* C16: changed is true iff the selected node differs from the node recorded
\* in node_slots[slot] (or none was recorded).
C16_ChangedIffDiffers ==
    [][\A w \in Workers :
          (Selects(w) /\ rt[w].conv \in ConvIds)
             => (rt'[w].changed <=>
                   BaseUrl(rt'[w].target) # meta[rt[w].conv].node_slots[rt[w].slot])]_vars

\* C18 as stated: a URL the router writes into node_slots is, at the moment
\* of the write, the URL of an alive node with dispatched_tasks = 0.
C18_LiveAtWrite ==
    [][\A w \in Workers :
          (Selects(w) /\ rt'[w].wrote)
             => /\ nodes[BaseUrl(rt'[w].target)].alive
                /\ nodes[BaseUrl(rt'[w].target)].dispatched_tasks = 0]_vars

\* C18: a URL the router writes into node_slots was the URL of a node in
\* the result of the same call's query of the alive idle nodes.
C18_InQueryResult ==
    [][\A w \in Workers :
          (Selects(w) /\ rt'[w].wrote)
             => /\ rt'[w].newmeta.node_slots[rt[w].slot] \in rt[w].active
                /\ rt'[w].newmeta.node_slots[rt[w].slot] = BaseUrl(rt'[w].target)]_vars

\* a write of node_slots has been committed
C18_Witness ==
    \E c \in ConvIds : \E i \in Slots : meta[c].node_slots[i] # Null

\* C17: when the payload's target_node_url names a node that is still alive
\* and idle, the node the worker goes on to reserve is that node, whatever
\* the router returned.
C17_PreBoundPreferred ==
    [][\A w \in Workers :
          (/\ wk[w].pc = "route" /\ wk'[w].pc = "cas"
           /\ stream[wk[w].msg].target_node_url \in ActiveNodes(nodes))
             => wk'[w].cand = FinalUrl(stream[wk[w].msg].target_node_url)]_vars

\* C19: every task with status SUCCESS has a response_text and every task
\* with status FAILED has an error_msg.
C19_TerminalHasText ==
    \A t \in TaskIds :
        /\ tasks[t].status = SUCCESS => tasks[t].response_text # Null
        /\ tasks[t].status = FAILED => tasks[t].error_msg # Null

(* ------------------------------------------------------------------ *)
(* Gateway: create_chat_task and get_batch_result                       *)
(* ------------------------------------------------------------------ *)
MaxModels == 2

GwFrame == UNCHANGED <<tasks, nodes, disp, stream, age, delivered, pel, wk, calls,
                       crashes, ackFails, claimer, dlq, meta, rt, more>>

\* init_batch: db.add(new_batch); db.commit(); n tasks are to be created
\* (the length of model_list times the concurrency)
GwInitBatch(b, n) ==
    /\ gw[b].pc = "idle"
    /\ batch_rows' = batch_rows \cup {b}
    /\ batch_status' = [batch_status EXCEPT ![b] = "PROCESSING"]
    /\ gw' = [gw EXCEPT ![b] = [pc |-> "dispatch", todo |-> n]]
    /\ UNCHANGED <<batch_tasks, polled>>
    /\ GwFrame

\* _dispatch_single_task: db.add(new_task); db.commit(). An exception of
\* the database leaves dispatch_tasks and create_chat_task answers 500
GwCreateTask(b, ok) ==
    /\ gw[b].pc = "dispatch"
    /\ IF ok
       THEN /\ batch_tasks' = [batch_tasks EXCEPT ![b] = Append(@, PENDING)]
            /\ gw' = [gw EXCEPT ![b].pc = "send"]
       ELSE /\ batch_tasks' = batch_tasks
            /\ gw' = [gw EXCEPT ![b].pc = "error500"]
    /\ UNCHANGED <<batch_rows, polled, batch_status>>
    /\ GwFrame

\* _dispatch_single_task: dispatch_to_stream; its exception is caught and
\* the task marked FAILED; then the next task of the loop or the answer
GwSend(b, ok) ==
    /\ gw[b].pc = "send"
    /\ batch_tasks' = IF ok THEN batch_tasks
                      ELSE [batch_tasks EXCEPT ![b][Len(batch_tasks[b])] = FAILED]
    /\ gw' = [gw EXCEPT ![b] = [pc |-> IF gw[b].todo = 1 THEN "done" ELSE "dispatch",
                                todo |-> gw[b].todo - 1]]
    /\ UNCHANGED <<batch_rows, polled, batch_status>>
    /\ GwFrame

\* a poll that sets the batch COMPLETED once every task is terminal
BatchStatusCompletes(status, task_statuses) ==
    IF \A i \in 1..Len(task_statuses) : task_statuses[i] \in Terminal
    THEN "COMPLETED" ELSE status

\* get_batch_result, lines 162-165: batch.status is read and left as it is
BatchStatusAtPoll(status, task_statuses) == status

\* get_batch_result: the batch row and batch.tasks
GwPoll(b) ==
    /\ b \in batch_rows
    /\ batch_status' = [batch_status EXCEPT ![b] =
                           BatchStatusAtPoll(batch_status[b], batch_tasks[b])]
    /\ polled' = [batch |-> b, status |-> batch_status'[b],
                  results |-> Len(batch_tasks[b])]
    /\ UNCHANGED <<gw, batch_rows, batch_tasks>>
    /\ GwFrame

\* a worker ends the i-th task of the batch: finish_task_success or
\* mark_task_failed write the Task row (and the conversation's updated_at)
GwTaskDone(b, i, status) ==
    /\ i \in 1..Len(batch_tasks[b])
    /\ batch_tasks[b][i] = PENDING
    /\ gw[b].pc # "send" \/ i < Len(batch_tasks[b])
    /\ batch_tasks' = [batch_tasks EXCEPT ![b][i] = status]
    /\ UNCHANGED <<gw, batch_rows, polled, batch_status>>
    /\ GwFrame

NextGateway ==
    \/ \E b \in BatchIds, n \in 1..MaxModels : GwInitBatch(b, n)
    \/ \E b \in BatchIds, ok \in BOOLEAN : GwCreateTask(b, ok)
    \/ \E b \in BatchIds, ok \in BOOLEAN : GwSend(b, ok)
    \/ \E b \in BatchIds : GwPoll(b)
    \/ \E b \in BatchIds, i \in 1..(MaxModels + 1), st \in Terminal : GwTaskDone(b, i, st)

SpecGateway == Init /\ [][NextGateway]_vars

\* C20: every committed ChatBatch row has at least one Task row, and a poll
\* of a batch never answers with an empty list of results.
C20_BatchHasTask ==
    /\ \A b \in batch_rows : Len(batch_tasks[b]) >= 1
    /\ polled.batch # "none" => polled.results >= 1

(* ------------------------------------------------------------------ *)
(* Dispatcher: dispatch_tasks over one model_config                     *)
(* ------------------------------------------------------------------ *)
\* strings are sequences of these pieces; a model name is one piece or
\* several written without a separator ("qwen" "gemini" is "qwengemini")
MaxCfgLen == 3
Pieces == {"on", "ON", "gemini", "qwen", "deepseek", "sd", "llama", " ", ","}
ModelConfigs == UNION {[1..n -> Pieces] : n \in 0..MaxCfgLen}
GeminiConcurrencies == -1..3
DefaultModel == <<"gemini-2.5-flash">>

Min2(a, b) == IF a < b THEN a ELSE b
Max2(a, b) == IF a > b THEN a ELSE b

\* str.lower()
LowerStr(s) == [i \in 1..Len(s) |-> IF s[i] = "ON" THEN "on" ELSE s[i]]

\* pattern in model_name.lower()
HasPattern(model_name, pattern) ==
    \E i \in 1..Len(model_name) :
        \/ LowerStr(model_name)[i] = pattern
        \/ model_name[i] = "gemini-2.5-flash" /\ pattern = "gemini"

\* model_config.split(",")
RECURSIVE SplitComma(_)
SplitComma(s) ==
    IF "," \notin Range(s) THEN <<s>>
    ELSE <<SubSeq(s, 1, IndexOf(s, ",") - 1)>>
         \o SplitComma(SubSeq(s, IndexOf(s, ",") + 1, Len(s)))

\* m.strip()
RECURSIVE LStrip(_)
LStrip(s) == IF s # <<>> /\ Head(s) = " " THEN LStrip(Tail(s)) ELSE s

RECURSIVE RStrip(_)
RStrip(s) ==
    IF s # <<>> /\ s[Len(s)] = " " THEN RStrip(SubSeq(s, 1, Len(s) - 1)) ELSE s

Strip(s) == RStrip(LStrip(s))

\* raw_list of dispatch_tasks
RawList(model_config) ==
    LET parts == SplitComma(model_config)
        stripped == [i \in 1..Len(parts) |-> Strip(parts[i])]
        NonEmpty(m) == Strip(m) # <<>>
    IN  SelectSeq(stripped, NonEmpty)

\* model_list with every token of raw_list kept
ModelListKeepOn(model_config) ==
    IF RawList(model_config) = <<>> THEN <<DefaultModel>> ELSE RawList(model_config)

\* model_list of dispatch_tasks, lines 151-154
ModelList(model_config) ==
    LET NotOn(m) == LowerStr(m) # <<"on">>
        model_list == SelectSeq(RawList(model_config), NotOn)
    IN  IF model_list = <<>> THEN <<DefaultModel>> ELSE model_list

\* the concurrency taken as given
ConcurrencyUnclamped(model_name, gemini_concurrency) ==
    IF HasPattern(model_name, "gemini") THEN gemini_concurrency ELSE 1

\* concurrency of dispatch_tasks, lines 159-168
Concurrency(model_name, gemini_concurrency) ==
    IF HasPattern(model_name, "gemini")
    THEN Min2(Max2(gemini_concurrency, 1), 2)
    ELSE 1

\* target_stream of dispatch_tasks, lines 178-182 ("": None, falsy alike)
TargetStream(model_name) ==
    IF HasPattern(model_name, "gemini") THEN "gemini_stream" ELSE ""

\* dispatch_to_stream: the stream key ("qianwen" stands for the two
\* Chinese characters of the second qwen pattern)
StreamKeyOf(model, optional_stream_key) ==
    IF optional_stream_key # "" THEN optional_stream_key
    ELSE IF HasPattern(model, "qwen") \/ HasPattern(model, "qianwen") THEN "qwen_stream"
    ELSE IF HasPattern(model, "deepseek") THEN "deepseek_stream"
    ELSE IF HasPattern(model, "gemini") THEN "gemini_stream"
    ELSE IF HasPattern(model, "sd") \/ HasPattern(model, "stable") THEN "sd_stream"
    ELSE "qwen_stream"

\* display_model_name of _dispatch_single_task for slot i of a model
DisplayModelName(base_model_name, concurrency, i) ==
    IF concurrency > 1
    THEN base_model_name \o <<" ", IF i = 1 THEN "(#1)"
                                   ELSE IF i = 2 THEN "(#2)" ELSE "(#n)">>
    ELSE base_model_name

\* the injective sequences of length k over S: random.sample(S, k)
Samples(S, k) ==
    {q \in [1..k -> S] : \A i, j \in 1..k : i # j => q[i] # q[j]}

\* _select_target_nodes: the lists it can return (has_model: node_model
\* is given); the table holds fewer than ten rows
select_target_nodes(rows, concurrency, has_model) ==
    LET available_nodes == {n \in NodeUrls : rows[n].status = "HEALTHY"}
        count_to_pick == Min2(Cardinality(available_nodes), concurrency)
        padded(q) == [i \in 1..concurrency |-> IF i <= Len(q) THEN q[i] ELSE Null]
    IN  IF has_model /\ concurrency > 0 /\ available_nodes # {}
        THEN {padded(q) : q \in Samples(available_nodes, count_to_pick)}
        ELSE {[i \in 1..Max2(concurrency, 0) |-> Null]}

\* every row of the call marked failed
MarkMqFailedAll(rows, i) ==
    [j \in 1..Len(rows) |-> [rows[j] EXCEPT !.status = FAILED, !.error_msg = MSG_MQ]]

\* except branch of _dispatch_single_task: new_task.status, new_task.error_msg
MarkMqFailed(rows, i) ==
    [rows EXCEPT ![i].status = FAILED, ![i].error_msg = MSG_MQ]

DispatchFrame == UNCHANGED <<tasks, nodes, disp, stream, age, delivered, pel, wk,
                            calls, crashes, ackFails, claimer, dlq, meta, rt, gw,
                            batch_rows, batch_tasks, polled, batch_status,
                            served, ctx>>

\* dispatch_tasks entered: lines 151-156
DtCall(model_config, gemini_concurrency) ==
    /\ dp.pc = "idle"
    /\ dp' = [DpIdle EXCEPT !.pc = "model", !.model_config = model_config,
                            !.gemini_concurrency = gemini_concurrency,
                            !.model_list = ModelList(model_config), !.mi = 1]
    /\ UNCHANGED <<drows, streams, node_rows>>
    /\ DispatchFrame

\* one turn of "for model_name in model_list", lines 158-172
DtSelect(target_urls) ==
    /\ dp.pc = "model"
    /\ LET model_name == dp.model_list[dp.mi]
       IN  target_urls \in select_target_nodes(node_rows,
                              Concurrency(model_name, dp.gemini_concurrency),
                              HasPattern(model_name, "gemini"))
    /\ dp' = IF target_urls # <<>>
             THEN [dp EXCEPT !.pc = "create", !.target_urls = target_urls, !.si = 1]
             ELSE [dp EXCEPT !.pc = IF dp.mi < Len(dp.model_list) THEN "model"
                                    ELSE "done",
                             !.target_urls = target_urls, !.mi = dp.mi + 1]
    /\ UNCHANGED <<drows, streams, node_rows>>
    /\ DispatchFrame

\* _dispatch_single_task, lines 90-112: the Task row is committed
DtCreate ==
    /\ dp.pc = "create"
    /\ drows' = Append(drows,
                  [model_name |-> DisplayModelName(dp.model_list[dp.mi],
                                     Len(dp.target_urls), dp.si),
                   mi |-> dp.mi, status |-> PENDING, error_msg |-> Null])
    /\ dp' = [dp EXCEPT !.pc = "send"]
    /\ UNCHANGED <<streams, node_rows>>
    /\ DispatchFrame

\* _dispatch_single_task, lines 114-137: dispatch_to_stream or the MQ
\* error branch; then dispatch_tasks appends the task id and goes on
DtSend(ok) ==
    /\ dp.pc = "send"
    /\ LET model == dp.model_list[dp.mi]
           key == StreamKeyOf(model, TargetStream(model))
       IN  IF ok
           THEN /\ streams' = [streams EXCEPT ![key] =
                     Append(@, [task_id |-> Len(drows), model |-> model,
                                target_node_url |-> dp.target_urls[dp.si]])]
                /\ drows' = drows
           ELSE /\ streams' = streams
                /\ drows' = MarkMqFailed(drows, Len(drows))
    /\ dp' = [dp EXCEPT
                !.created_task_ids = Append(@, Len(drows)),
                !.pc = IF dp.si < Len(dp.target_urls) THEN "create"
                       ELSE IF dp.mi < Len(dp.model_list) THEN "model" ELSE "done",
                !.si = IF dp.si < Len(dp.target_urls) THEN dp.si + 1 ELSE 0,
                !.mi = IF dp.si < Len(dp.target_urls) THEN dp.mi ELSE dp.mi + 1]
    /\ UNCHANGED node_rows
    /\ DispatchFrame

NextDispatch ==
    \/ \E c \in ModelConfigs, g \in GeminiConcurrencies : DtCall(c, g)
    \/ \E u \in UNION {[1..n -> NodeUrls \cup {Null}] : n \in 0..3} : DtSelect(u)
    \/ DtCreate
    \/ \E ok \in BOOLEAN : DtSend(ok)

SpecDispatch == Init /\ [][NextDispatch]_vars

\* the comma positions of s, with both ends
Cuts(s) == {0, Len(s) + 1} \cup {i \in 1..Len(s) : s[i] = ","}

\* the text between the cut a and the next cut, without the spaces around it
PieceAfter(s, a) ==
    LET b == CHOOSE x \in Cuts(s) : x > a /\ \A y \in Cuts(s) : y > a => x <= y
        ns == {i \in (a + 1)..(b - 1) : s[i] # " "}
    IN  IF ns = {} THEN <<>>
        ELSE SubSeq(s, CHOOSE i \in ns : \A j \in ns : i <= j,
                       CHOOSE i \in ns : \A j \in ns : i >= j)

\* the tokens of s that are neither empty nor in dropped, in order; the
\* default model when none is left
WantedModels(s, dropped) ==
    LET starts == SortedSeq(Cuts(s) \ {Len(s) + 1})
        all == [k \in 1..Len(starts) |-> PieceAfter(s, starts[k])]
        Keep(m) == m # <<>> /\ m \notin dropped
        kept == SelectSeq(all, Keep)
    IN  IF kept = <<>> THEN <<DefaultModel>> ELSE kept

RowsOf(k) == {i \in 1..Len(drows) : drows[i].mi = k}

\* the stream entries of the rows in I
EntriesOf(I) ==
    {<<key, j>> \in StreamKeys \X (1..Len(drows)) :
        j <= Len(streams[key]) /\ streams[key][j].task_id \in I}

\* C22: when the call has finished, a model whose lower-cased name contains
\* "gemini" has exactly clamp(gemini_concurrency, 1, 2) tasks and any other
\* model exactly one; a single task carries the model name, two tasks carry
\* it followed by " (#1)" and " (#2)"; every task whose append did not fail
\* has exactly one stream entry, so without a failure there are as many
\* entries as tasks.
C22_TaskCountAndNames ==
    dp.pc = "done" =>
      \A k \in 1..Len(dp.model_list) :
        LET m == dp.model_list[k]
            g == dp.gemini_concurrency
            n == IF HasPattern(m, "gemini")
                 THEN (IF g < 1 THEN 1 ELSE IF g > 2 THEN 2 ELSE g) ELSE 1
            first == CHOOSE i \in RowsOf(k) : \A j \in RowsOf(k) : i <= j
        IN  /\ Cardinality(RowsOf(k)) = n
            /\ n = 1 => drows[first].model_name = m
            /\ n = 2 => /\ drows[first].model_name = m \o <<" ", "(#1)">>
                        /\ drows[first + 1].model_name = m \o <<" ", "(#2)">>
                        /\ first + 1 \in RowsOf(k)
            /\ Cardinality(EntriesOf(RowsOf(k)))
                 = Cardinality({i \in RowsOf(k) : drows[i].status # FAILED})
            /\ \A i \in RowsOf(k) :
                 Cardinality(EntriesOf({i})) = IF drows[i].status = FAILED THEN 0 ELSE 1

\* a call with gemini_concurrency = 3 has finished with two gemini tasks,
\* both enqueued
C22_Witness ==
    /\ dp.pc = "done"
    /\ dp.gemini_concurrency = 3
    /\ dp.model_list = <<(<<"gemini">>)>>
    /\ Len(drows) = 2
    /\ Len(streams["gemini_stream"]) = 2

\* the patterns of the routing table that occur in the lower-cased name
PatternsIn(model) ==
    {q \in {"gemini", "stable", "sd", "qwen", "qianwen", "deepseek"} :
        HasPattern(model, q)}

\* C23: an entry whose model name matches the patterns of one row of the
\* routing table only is in that row's stream, and an entry whose model
\* name matches no pattern is in gemini_stream.
C23_RoutingTable ==
    \A key \in StreamKeys : \A j \in 1..Len(streams[key]) :
        LET hit == PatternsIn(streams[key][j].model)
        IN  /\ (hit # {} /\ hit \subseteq {"gemini"}) => key = "gemini_stream"
            /\ (hit # {} /\ hit \subseteq {"stable", "sd"}) => key = "sd_stream"
            /\ (hit # {} /\ hit \subseteq {"qwen", "qianwen"}) => key = "qwen_stream"
            /\ (hit # {} /\ hit \subseteq {"deepseek"}) => key = "deepseek_stream"
            /\ hit = {} => key = "gemini_stream"

\* C24: a failed append marks its own task FAILED with an error_msg that
\* starts with "MQ Error: " and touches no other row; every other task of
\* the call has its row and its stream entry; the call runs to its end with
\* as many tasks as without the failure and returns every task id, the
\* failed one included.
C24_PartialEnqueueFailure ==
    /\ [](/\ \A i \in 1..Len(drows) :
               /\ drows[i].status = FAILED =>
                    /\ drows[i].error_msg # Null
                    /\ SubSeq(drows[i].error_msg, 1, 1) = MSG_MQ
                    /\ EntriesOf({i}) = {}
               /\ (drows[i].status # FAILED /\ ~(i = Len(drows) /\ dp.pc = "send"))
                    => Cardinality(EntriesOf({i})) = 1
          /\ dp.pc = "done" =>
               /\ dp.created_task_ids = [i \in 1..Len(drows) |-> i]
               /\ \A k \in 1..Len(dp.model_list) :
                    Cardinality(RowsOf(k))
                      = Concurrency(dp.model_list[k], dp.gemini_concurrency))
    /\ [][\A i \in 1..Len(drows) :
             drows'[i] # drows[i] => (i = Len(drows) /\ dp.pc = "send")]_vars

\* a fan-out of two has finished with its first append failed and its
\* second task enqueued
C24_Witness ==
    /\ dp.pc = "done"
    /\ Len(drows) = 2
    /\ drows[1].status = FAILED
    /\ drows[2].status = PENDING
    /\ EntriesOf({2}) # {}
    /\ dp.created_task_ids = <<1, 2>>

(* ------------------------------------------------------------------ *)
(* _select_target_nodes over every content of the node table            *)
(* ------------------------------------------------------------------ *)
NodeRowKinds == [status : {"HEALTHY", "UNHEALTHY"}, fresh : BOOLEAN]

InitSelect ==
    /\ tasks = [t \in TaskIds |-> NoRow]
    /\ nodes = [n \in NodeUrls |-> [alive |-> TRUE, dispatched_tasks |-> 0]]
    /\ disp = [t \in TaskIds |-> "idle"]
    /\ stream = <<>>
    /\ age = <<>>
    /\ delivered = 0
    /\ pel = [w \in Workers |-> {}]
    /\ wk = [w \in Workers |-> Idle]
    /\ calls = [t \in TaskIds |-> 0]
    /\ crashes = 0
    /\ ackFails = 0
    /\ claimer = NoThreads
    /\ dlq = <<>>
    /\ meta = [c \in ConvIds |-> EmptyMeta]
    /\ rt = [w \in Workers |-> RtIdle]
    /\ gw = [b \in BatchIds |-> [pc |-> "idle", todo |-> 0]]
    /\ batch_rows = {}
    /\ batch_tasks = [b \in BatchIds |-> <<>>]
    /\ polled = [batch |-> "none", status |-> "none", results |-> 0]
    /\ batch_status = [b \in BatchIds |-> "NOROW"]
    /\ dp = DpIdle
    /\ drows = <<>>
    /\ streams = [k \in StreamKeys |-> <<>>]
    /\ node_rows \in [NodeUrls -> NodeRowKinds]
    /\ served = [t \in TaskIds |-> Null]
    /\ ctx = CtxIdle

\* requests for one model: a gemini model (node family given) or another
NextSelect ==
    \/ \E c \in {<<"gemini">>, <<"qwen">>}, g \in GeminiConcurrencies : DtCall(c, g)
    \/ \E u \in UNION {[1..n -> NodeUrls \cup {Null}] : n \in 0..3} : DtSelect(u)
    \/ DtCreate
    \/ \E ok \in BOOLEAN : DtSend(ok)

SpecSelect == InitSelect /\ [][NextSelect]_vars

\* the nodes with status HEALTHY and a heartbeat newer than 30 s
AliveRows == {n \in NodeUrls : node_rows[n].status = "HEALTHY" /\ node_rows[n].fresh}

\* C29: the list returned for a model has exactly `concurrency` entries;
\* with at least `concurrency` alive family nodes they are pairwise
\* distinct node URLs, with fewer but at least one every entry is a node
\* URL, with no family or no alive node every entry is null; every URL in
\* the list is that of a node that is HEALTHY with a fresh heartbeat.
C29_SelectedTargets ==
    dp.pc \in {"create", "send"} =>
      LET model_name == dp.model_list[dp.mi]
          concurrency == Concurrency(model_name, dp.gemini_concurrency)
          family == HasPattern(model_name, "gemini")
          u == dp.target_urls
      IN  /\ Len(u) = concurrency
          /\ (family /\ Cardinality(AliveRows) >= concurrency) =>
                /\ \A i \in 1..Len(u) : u[i] \in NodeUrls
                /\ \A i, j \in 1..Len(u) : i # j => u[i] # u[j]
          /\ (family /\ AliveRows # {} /\ Cardinality(AliveRows) < concurrency) =>
                \A i \in 1..Len(u) : u[i] \in NodeUrls
          /\ (~family \/ AliveRows = {}) => \A i \in 1..Len(u) : u[i] = Null
          /\ \A i \in 1..Len(u) : u[i] # Null => u[i] \in AliveRows

\* C26: a run makes at most 3 CAS attempts; it holds a node only when its
\* own CAS changed exactly one row; a run in which acquire_node_with_retry
\* returned no node ends with the task FAILED with the no-node message and
\* the message acked, without an upload or a backend call, and none of its
\* steps changes a node row.
C26_NoNodeOutcome ==
    [][\A w \in Workers :
          /\ wk'[w].casn <= max_retries
          /\ (wk[w].pc = "cas" /\ wk'[w].held # Null) =>
                /\ NodeClaimRowcount(nodes, wk[w].cand) = 1
                /\ nodes[BaseUrl(wk[w].cand)].dispatched_tasks = 0
                /\ nodes'[BaseUrl(wk[w].cand)].dispatched_tasks = 1
          /\ (wk[w].nonode /\ wk'[w] # wk[w]) => nodes' = nodes
          /\ (RunReturns(w) /\ wk[w].nonode) =>
                /\ tasks'[TaskOf(wk[w].msg)].status = FAILED
                /\ tasks'[TaskOf(wk[w].msg)].error_msg = MSG_NO_NODE
                /\ wk[w].msg \notin pel'[w]
                /\ ~wk[w].called
                /\ wk[w].held = Null]_vars

\* C30: in a run whose claim_task returned False (the task was not
\* PENDING), no step after the claim changes the task row, a node row or
\* the number of backend calls, and the run returns with the message acked.
C30_RefusedClaimOnlyAcks ==
    [][\A w \in Workers :
          /\ (wk[w].refused /\ wk'[w] # wk[w]) =>
                /\ tasks'[TaskOf(wk[w].msg)] = tasks[TaskOf(wk[w].msg)]
                /\ nodes' = nodes
                /\ calls' = calls
                /\ wk[w].held = Null
          /\ (RunReturns(w) /\ wk[w].refused) => wk[w].msg \notin pel'[w]]_vars

\* C28: the set the router works on is the set of nodes that are alive
\* (status HEALTHY, fresh heartbeat, current_tasks = 0) with
\* dispatched_tasks = 0 when it queries; the node it returns is in that
\* set; when the set is empty it returns (None, False) and the
\* conversation's session_metadata is not written.
C28_ReturnedNodeWasActive ==
    [][\A w \in Workers :
          LET current == {n \in NodeUrls :
                            nodes[n].alive /\ nodes[n].dispatched_tasks = 0}
          IN  /\ (rt[w].pc \in {"idle", "none"} /\ rt'[w].pc = "queried") =>
                    (rt'[w].active = current /\ current # {})
              /\ (rt[w].pc = "idle" /\ rt'[w].pc = "none") =>
                    /\ current = {}
                    /\ meta' = meta
                    /\ rt'[w].target = Null
                    /\ ~rt'[w].changed
                    /\ ~rt'[w].wrote
              /\ Selects(w) => BaseUrl(rt'[w].target) \in rt[w].active]_vars

\* the router has selected the legacy-bound node through its sticky branch
C28_Witness ==
    \E w \in Workers :
        /\ rt[w].pc = "selected"
        /\ ~rt[w].wrote
        /\ rt[w].conv \in ConvIds
        /\ BaseUrl(rt[w].target) \in rt[w].active

(* ------------------------------------------------------------------ *)
(* gemini_worker.process_message: route, then update_node_load(+1)      *)
(* ------------------------------------------------------------------ *)
\* update_node_load(db, target_url, 1); its commit also flushes the
\* router's write of node_slots
LgReserve(w) ==
    /\ rt[w].pc = "selected"
    /\ nodes' = update_node_load(nodes, rt[w].target, 1)
    /\ meta' = IF rt[w].wrote THEN [meta EXCEPT ![rt[w].conv] = rt[w].newmeta]
               ELSE meta
    /\ rt' = [rt EXCEPT ![w].pc = "held",
                        ![w].context = IF rt[w].changed THEN "history" ELSE "prompt"]
    /\ RouteFrame

\* process_message of two workers: get_database_target_url, +1, the
\* backend call, finally -1
NextLegacy ==
    \/ \E w \in Workers, c \in ConvIds \cup {"none"}, i \in Slots : RtQuery(w, c, i)
    \/ \E w \in Workers, pick \in NodeUrls : RtSelect(w, pick)
    \/ \E w \in Workers : LgReserve(w)
    \/ \E w \in Workers : RtRelease(w)
    \/ \E n \in NodeUrls : NodeFlip(n)

SpecLegacy == InitRoute /\ [][NextLegacy]_vars

\* C27: with workers that reserve by update_node_load(+1), no node's
\* dispatched_tasks exceeds 1.
C27_LegacyExclusive ==
    \A n \in NodeUrls : nodes[n].dispatched_tasks <= 1

(* ------------------------------------------------------------------ *)
(* Scenario S3: a fan-out of two gemini tasks, two alive idle nodes,    *)
(* a backend that answers 200, no kill and no broker error              *)
(* ------------------------------------------------------------------ *)
\* the backend call, with the node it went to written down
CallS3(w) ==
    /\ CallBody(w, "ok")
    /\ served' = [served EXCEPT ![TaskOf(wk[w].msg)] = BaseUrl(wk[w].held)]

NextS3 ==
    \/ \E t \in TaskIds : DispatchCreate(t)
    \/ \E t \in TaskIds : DispatchSend(t, TRUE)
    \/ \E w \in Workers : MainRead(w)
    \/ \E w \in Workers : Route(w)
    \/ \E w \in Workers : Cas(w)
    \/ \E w \in Workers : Upload(w, TRUE)
    \/ \E w \in Workers : CallS3(w)
    \/ \E w \in Workers : Result(w)
    \/ \E w \in Workers : Ack(w, TRUE)
    \/ \E w \in Workers : Release(w)

SpecS3 == Init /\ [][NextS3]_vars

\* both tasks worked off
DoneS3 ==
    /\ \A t \in TaskIds : disp[t] = "done"
    /\ delivered = Len(stream)
    /\ \A w \in Workers : wk[w].pc = "main" /\ pel[w] = {}

\* C25: in scenario S3 no task is ever FAILED, both are SUCCESS when both
\* are worked off, and the two backend requests went to two distinct nodes.
C25_S3DistinctNodes ==
    /\ \A t \in TaskIds : tasks[t].status # FAILED
    /\ DoneS3 => \A t \in TaskIds : tasks[t].status = SUCCESS
    /\ (served["t1"] # Null /\ served["t2"] # Null) => served["t1"] # served["t2"]

(* ------------------------------------------------------------------ *)
(* recover_pending_tasks: the zombie reset and the callback's claim     *)
(* ------------------------------------------------------------------ *)
\* recover_pending_tasks of worker w hands its next entry to the callback
HandsOver(w) == wk[w].pc = "rec_pre" /\ wk'[w].pc = "claim"

\* C31: for a pending entry younger than 60 s whose task is PROCESSING,
\* recovery sets the task to PENDING in the step that hands the entry to the
\* callback with check_idempotency = True, and the callback's claim then
\* succeeds and the run goes on to acquire a node; the hand-over changes no
\* task that is PENDING, SUCCESS or FAILED.
C31_ZombieResetThenClaim ==
    [][\A w \in Workers :
          /\ (HandsOver(w) /\ ~Expired(Head(wk[w].recq))) =>
                LET t == TaskOf(Head(wk[w].recq))
                IN  /\ wk'[w].chk /\ wk'[w].msg = Head(wk[w].recq)
                    /\ tasks[t].status = PROCESSING => tasks'[t].status = PENDING
                    /\ \A u \in TaskIds :
                         tasks[u].status # PROCESSING => tasks'[u] = tasks[u]
          /\ (/\ wk[w].pc = "claim" /\ wk[w].mode = "rec"
              /\ wk[w].began = PROCESSING /\ ~Expired(wk[w].msg)
              /\ wk'[w].pc \notin {"claim", "down"}) =>
                /\ wk'[w].pc = "route"
                /\ tasks'[TaskOf(wk[w].msg)].status = PROCESSING]_vars

(* ------------------------------------------------------------------ *)
(* build_conversation_context over every content of ai_tasks            *)
(* ------------------------------------------------------------------ *)
MaxHistory == 2              \* Task rows in the table

\* in this section a text is a string, "" is the empty text and "None" is
\* Python None; rows stand in the order of their created_at
HistoryRow == [conversation_id : {"c1", "c2"}, status : {SUCCESS, FAILED},
               prompt : {"", "q"}, response_text : {"None", "", "a"}]
HistoryTables == UNION {[1..n -> HistoryRow] : n \in 0..MaxHistory}

\* bool(x) of an Optional[str]
Truthy(x) == x # "None" /\ x # ""

\* the query of lines 23-27 and the reverse of line 30: the positions of the
\* rows it returns, ascending
history_tasks(rows, conversation_id, limit) ==
    LET hits == {i \in 1..Len(rows) :
                    /\ rows[i].conversation_id = conversation_id
                    /\ rows[i].status = SUCCESS
                    /\ rows[i].response_text # "None"}
        newest == {i \in hits : Cardinality({j \in hits : j > i}) < limit}
    IN  SortedSeq(newest)

\* lines 35-41, over the rows at the positions idx
RECURSIVE HistoryMessages(_, _)
HistoryMessages(rows, idx) ==
    IF idx = <<>> THEN <<>>
    ELSE LET task == rows[Head(idx)]
         IN  (IF Truthy(task.prompt)
              THEN <<[role |-> "user", content |-> task.prompt]>> ELSE <<>>)
             \o (IF Truthy(task.response_text)
                 THEN <<[role |-> "assistant", content |-> task.response_text]>>
                 ELSE <<>>)
             \o HistoryMessages(rows, Tail(idx))

build_conversation_context(rows, conversation_id, current_prompt, limit) ==
    IF ~Truthy(conversation_id)
    THEN <<[role |-> "user", content |-> current_prompt]>>
    ELSE HistoryMessages(rows, history_tasks(rows, conversation_id, limit))
         \o <<[role |-> "user", content |-> current_prompt]>>

CtxFrame == UNCHANGED <<tasks, nodes, disp, stream, delivered, pel, age, wk, calls,
                        crashes, ackFails, claimer, dlq, meta, rt, gw, batch_rows,
                        batch_tasks, polled, batch_status, dp, drows, streams,
                        node_rows, served>>

\* run_chat_task, line 84: the call, with the table as it is then
CtxCall(rows, conversation_id, limit) ==
    /\ ctx.pc = "idle"
    /\ ctx' = [CtxIdle EXCEPT !.pc = "called", !.rows = rows,
                              !.conversation_id = conversation_id,
                              !.current_prompt = "now", !.limit = limit]
    /\ CtxFrame

CtxReturn ==
    /\ ctx.pc = "called"
    /\ ctx' = [ctx EXCEPT !.pc = "returned",
                  !.messages = build_conversation_context(ctx.rows,
                                  ctx.conversation_id, ctx.current_prompt, ctx.limit)]
    /\ CtxFrame

NextContext ==
    \/ \E rows \in HistoryTables, c \in {"None", "c1"}, limit \in 0..MaxHistory :
          CtxCall(rows, c, limit)
    \/ CtxReturn

SpecContext == Init /\ [][NextContext]_vars

\* the user and assistant entries of the rows at the positions idx
RECURSIVE PairsOf(_, _)
PairsOf(rows, idx) ==
    IF idx = <<>> THEN <<>>
    ELSE <<[role |-> "user", content |-> rows[Head(idx)].prompt],
           [role |-> "assistant", content |-> rows[Head(idx)].response_text]>>
         \o PairsOf(rows, Tail(idx))

\* the at most n last positions of the SUCCESS rows of the conversation
\* that have a response_text, ascending
RecentSuccess(rows, conversation_id, n) ==
    LET ok == {i \in 1..Len(rows) : /\ rows[i].conversation_id = conversation_id
                                    /\ rows[i].status = SUCCESS
                                    /\ rows[i].response_text # "None"}
    IN  SortedSeq({i \in ok : Cardinality({j \in ok : j > i}) < n})

\* C32: for a non-null conversation_id the result is the (user: prompt,
\* assistant: response_text) pairs of the at most `limit` newest SUCCESS
\* tasks of the conversation, oldest first, followed by the current prompt
\* as a user entry; every assistant entry directly follows a user entry;
\* for a null conversation_id the result is the current prompt alone.
C32_ContextIsPairs ==
    ctx.pc = "returned" =>
      LET m == ctx.messages
          now == [role |-> "user", content |-> ctx.current_prompt]
      IN  /\ ctx.conversation_id = "None" => m = <<now>>
          /\ ctx.conversation_id # "None" =>
                m = PairsOf(ctx.rows, RecentSuccess(ctx.rows, ctx.conversation_id,
                                                    ctx.limit)) \o <<now>>
          /\ \A i \in 1..Len(m) :
                m[i].role = "assistant" => (i > 1 /\ m[i - 1].role = "user")

\* C33: at the audit of a 200 answer, a text that contains one of the
\* refusal keywords given to the auditor makes the task FAILED with
\* error_msg = "generation failed: " + text and the auditor returns False;
\* any other answer makes the task SUCCESS with response_text = text and
\* the auditor returns True.
C33_AuditOutcome ==
    [][\A w \in Workers :
          (wk[w].pc = "result" /\ wk'[w].pc = "ack") =>
             LET t == TaskOf(wk[w].msg)
                 text == wk[w].resp
                 kw == RefusalKeywordsOf(w)
                 returned == process_ai_result_returns(tasks, t, text, kw)
             IN  IF \E k \in kw : k \in Range(text)
                 THEN /\ tasks'[t].status = FAILED
                      /\ tasks'[t].error_msg = MSG_REFUSED \o text
                      /\ ~returned
                 ELSE /\ tasks'[t].status = SUCCESS
                      /\ tasks'[t].response_text = text
                      /\ returned]_vars

\* C34: every step that brings a task into SUCCESS or FAILED is a worker's
\* call of mark_task_failed or of finish_task_success on that task (the
\* latter, and the refusal's mark_task_failed, inside process_ai_result).
C34_OnlyTwoWriters ==
    [][\A t \in TaskIds :
          (tasks'[t].status \in Terminal /\ tasks'[t].status # tasks[t].status) =>
             \E w \in Workers :
                /\ wk'[w] # wk[w]
                /\ wk[w].pc \in {"markfail", "result"}
                /\ TaskOf(wk[w].msg) = t
                /\ \/ /\ wk[w].pc = "markfail"
                      /\ tasks' = mark_task_failed(tasks, t, wk[w].err)
                   \/ /\ wk[w].pc = "result"
                      /\ \/ tasks' = finish_task_success(tasks, t, wk[w].resp)
                         \/ tasks' = mark_task_failed(tasks, t,
                                                      MSG_REFUSED \o wk[w].resp)]_vars

(* ------------------------------------------------------------------ *)
(* gemini_worker.process_message, with a backend that answers 200 and   *)
(* no kill and no broker error                                          *)
(* ------------------------------------------------------------------ *)
\* line 131: update_node_load(db, target_url, 1), then the upload if the
\* task has files
GmReserve(w) ==
    /\ wk[w].pc = "cas"
    /\ nodes' = update_node_load(nodes, wk[w].cand, 1)
    /\ wk' = [wk EXCEPT ![w].held = wk[w].cand,
                        ![w].pc = IF FilePaths(TaskOf(wk[w].msg)) # <<>>
                                  THEN "upload" ELSE "call"]
    /\ UNCHANGED <<rest, tasks, disp, stream, delivered, pel, age, calls,
                   crashes, ackFails, claimer>>

\* lines 139-143: the relay gave no remote path; mark_task_failed is next
GmUploadFails(w) ==
    /\ wk[w].pc = "upload"
    /\ wk' = [wk EXCEPT ![w].pc = "markfail", ![w].err = MSG_UPLOAD,
                        ![w].site = "ellipsis", ![w].upfail = TRUE]
    /\ UNCHANGED <<rest, tasks, nodes, disp, stream, delivered, pel, age, calls,
                   crashes, ackFails, claimer>>

\* line 144: redis_client.xack(...) is a call with the one argument
\* Ellipsis; it raises TypeError, and the handler of lines 219-224 runs
GmXackEllipsis(w) ==
    /\ wk[w].pc = "ack" /\ wk[w].site = "ellipsis"
    /\ wk' = [wk EXCEPT ![w].pc = "markfail", ![w].err = MSG_INTERNAL,
                        ![w].site = "handler"]
    /\ UNCHANGED <<rest, tasks, nodes, disp, stream, delivered, pel, age, calls,
                   crashes, ackFails, claimer>>

\* every other xack of process_message
GmAck(w) == wk[w].site # "ellipsis" /\ Ack(w, TRUE)

NextGemini ==
    \/ \E t \in TaskIds : DispatchCreate(t)
    \/ \E t \in TaskIds : DispatchSend(t, TRUE)
    \/ \E w \in Workers : MainRead(w)
    \/ \E w \in Workers : Route(w)
    \/ \E w \in Workers : GmReserve(w)
    \/ \E w \in Workers : Upload(w, TRUE)
    \/ \E w \in Workers : GmUploadFails(w)
    \/ \E w \in Workers, outcome \in {"ok", "refusal"} : Call(w, outcome)
    \/ \E w \in Workers : Result(w)
    \/ \E w \in Workers : MarkFail(w)
    \/ \E w \in Workers : GmXackEllipsis(w)
    \/ \E w \in Workers : GmAck(w)
    \/ \E w \in Workers : Release(w)

SpecGemini == Init /\ [][NextGemini]_vars

\* C35: in a run whose upload relay gave no remote path, no step after the
\* upload calls the chat-completions endpoint, and the run ends with the
\* task FAILED with an error_msg that starts with "file upload failed", the
\* message acked and the reserved node released.
C35_UploadFailureOutcome ==
    [][\A w \in Workers :
          (InRun(w) /\ wk[w].upfail) =>
             /\ ~wk[w].called
             /\ calls'[TaskOf(wk[w].msg)] = calls[TaskOf(wk[w].msg)]
             /\ RunReturns(w) =>
                   /\ tasks'[TaskOf(wk[w].msg)].status = FAILED
                   /\ SubSeq(tasks'[TaskOf(wk[w].msg)].error_msg, 1, 1) = MSG_UPLOAD
                   /\ wk[w].msg \notin pel'[w]
                   /\ wk[w].held # Null
                   /\ nodes'[BaseUrl(wk[w].held)].dispatched_tasks
                        = nodes[BaseUrl(wk[w].held)].dispatched_tasks - 1]_vars

\* C36: every committed ChatBatch row has status PROCESSING, in every
\* reachable state and in every answer of a poll, also when all of the
\* batch's tasks are SUCCESS or FAILED; a batch without a row has none.
C36_BatchStaysProcessing ==
    /\ \A b \in BatchIds :
          batch_status[b] = IF b \in batch_rows THEN "PROCESSING" ELSE "NOROW"
    /\ polled.batch # "none" => polled.status = "PROCESSING"

\* a finished request whose tasks are all terminal has been polled
C36_Witness ==
    \E b \in batch_rows :
        /\ gw[b].pc = "done"
        /\ Len(batch_tasks[b]) = MaxModels
        /\ \A i \in 1..Len(batch_tasks[b]) : batch_tasks[b][i] \in Terminal
        /\ \E i \in 1..Len(batch_tasks[b]) : batch_tasks[b][i] = SUCCESS
        /\ polled.batch = b
        /\ polled.status = "PROCESSING"

\* C37: whenever run_chat_task returns, the message it was given is no
\* longer in the consumer's pending list: for a payload that is empty or
\* not JSON (after the dead letter), and for a payload that decodes to
\* null, to an empty object or to an empty list.
C37_AckedOnReturn ==
    [][\A w \in Workers :
          /\ (/\ wk[w].pc = "main" /\ wk'[w].pc = "main"
              /\ delivered' = delivered + 1
              /\ JsonFalsy(stream[delivered + 1].payload))
                => (delivered + 1) \notin pel'[w]
          /\ (/\ wk[w].pc = "rec_pre" /\ wk'[w].pc \in {"rec_pre", "main"}
              /\ wk'[w] # wk[w]
              /\ ~Expired(Head(wk[w].recq))
              /\ JsonFalsy(stream[Head(wk[w].recq)].payload))
                => Head(wk[w].recq) \notin pel'[w]
          /\ (/\ wk[w].pc = "p_ack" /\ wk'[w].pc \in {"rec_pre", "main"}
              /\ ackFails' = ackFails)
                => wk[w].msg \notin pel'[w]]_vars

\* C38: a node reservation is never lost: from any state in which a node's
\* dispatched_tasks is 1, a state in which it is 0 again is reached, also
\* when the reserving worker is killed before its release and restarted.
C38_ReservationReturns ==
    \A n \in NodeUrls :
        (nodes[n].dispatched_tasks = 1) ~> (nodes[n].dispatched_tasks = 0)

(* ------------------------------------------------------------------ *)
(* start_worker with a backlog: recover_pending_tasks over a pending    *)
(* list of every length up to one more than its read count              *)
(* ------------------------------------------------------------------ *)
MaxBacklog == 51             \* entries pending for the consumer at startup

\* w1 was stopped with n entries pending, all carrying the payload p, all
\* older than 60 s or all younger
InitBacklog ==
    /\ tasks = [t \in TaskIds |-> NewRow]
    /\ nodes = [n \in NodeUrls |-> [alive |-> TRUE, dispatched_tasks |-> 0]]
    /\ disp = [t \in TaskIds |-> "done"]
    /\ \E n \in 1..MaxBacklog, p \in RawPayloads, a \in {0, ExpireMs + 1} :
          /\ stream = [i \in 1..n |-> [payload |-> p]]
          /\ age = [i \in 1..n |-> a]
          /\ delivered = n
          /\ pel = [w \in Workers |-> IF w = "w1" THEN 1..n ELSE {}]
    /\ wk = [w \in Workers |-> IF w = "w1" THEN Down ELSE Idle]
    /\ calls = [t \in TaskIds |-> 0]
    /\ crashes = 0
    /\ ackFails = 0
    /\ claimer = NoThreads
    /\ RestInit

NextBacklog ==
    \/ \E w \in Workers : RestartRaw(w)
    \/ \E w \in Workers : RecExpireRaw(w, TRUE)
    \/ \E w \in Workers : RecCallbackRaw(w)
    \/ \E w \in Workers : SendToDlq(w, TRUE)
    \/ \E w \in Workers : ParseAck(w, TRUE)

SpecBacklog == InitBacklog /\ [][NextBacklog]_vars

\* C39: when recover_pending_tasks returns, no entry that was in the
\* consumer's pending list at startup is still pending, whatever their
\* number and their payloads.
C39_RecoveryDrainsPending ==
    [][\A w \in Workers :
          RecoveryReturns(w) => wk[w].recSeen \cap pel'[w] = {}]_vars

\* the stream entries that carry task t
EntriesFor(t) == {m \in 1..Len(stream) : TaskOf(m) = t}

\* C40: every stream entry carries the task_id of a committed Task row, and
\* at the append the row is PENDING; a worker never reads an entry whose
\* row does not exist; no task has more than one entry, and a task whose
\* append succeeded has exactly one.
C40_RowBeforeEntry ==
    /\ [](/\ \A m \in 1..Len(stream) : tasks[TaskOf(m)].status # NOROW
          /\ \A t \in TaskIds :
               /\ Cardinality(EntriesFor(t)) <= 1
               /\ disp[t] # "done" => EntriesFor(t) = {}
               /\ (disp[t] = "done" /\ tasks[t].error_msg # MSG_MQ)
                     => Cardinality(EntriesFor(t)) = 1)
    /\ [][/\ Len(stream') > Len(stream) =>
               /\ Len(stream') = Len(stream) + 1
               /\ tasks[stream'[Len(stream')].task].status = PENDING
          /\ delivered' > delivered =>
               tasks[TaskOf(delivered')].status # NOROW]_vars

\* both tasks have been appended and a worker has read the second entry
C40_Witness ==
    /\ Len(stream) = 2
    /\ delivered = 2
    /\ \A t \in TaskIds : Cardinality(EntriesFor(t)) = 1

====
